---- MODULE Spec2Model ----
(***************************************************************************)
(* A model of the raytracer core of renderer-test: the scene store         *)
(* (raytracer::World), its mode state machines and the parallel tile       *)
(* renderer (World::draw) driven by the frame loop of rt::run.             *)
(*                                                                         *)
(* Numbers.  The program computes in f32.  The model computes in exact     *)
(* integers: a colour channel is held in thousandths (1000 is 1.0), a      *)
(* camera angle in quarter turns (so that sin and cos are exact), a        *)
(* field of view in whole degrees, and positions and ray directions in     *)
(* integer vectors.  NaN is not a value of the model.                      *)
(***************************************************************************)
EXTENDS Integers, Sequences, FiniteSets, TLC

(***************************************************************************)
(* Bounds of the model.                                                    *)
(***************************************************************************)
\* World API calls made in one run of Spec.
MaxOps == 3
\* cycle_bsdf_mode / cycle_gi_mode calls made in one run of CycleSpec.
MaxCycles == 12
\* Frames of the frame loop in one run of DrawSpec.
MaxFrames == 2
\* Largest target width and height, and largest hardware concurrency.
MaxWidth == 2
MaxHeight == 2
MaxThreads == 3
\* Most faces of a Mesh in one run of BvhSpec.
MaxFaces == 6
\* Most lines of an OBJ file in one run of LoadSpec.
MaxLines == 3
\* Most shade calls in one run of ShadeSpec.
MaxCalls == 2

VARIABLES
    \* raytracer::World
    object_data,        \* sequence of [shape, material]: (Shape, material index)
    material_data,      \* sequence of materials
    light_data,         \* sequence of point lights
    camera_position,
    camera_pitch,
    camera_yaw,
    camera_roll,
    background_color,
    fov,
    checkerboard,
    shadows,
    bsdf_mode,
    gi_mode,
    \* the caller of the World API
    ops,                \* number of World API calls made so far
    refs,               \* one record per add call, oldest first: the Ref it
                        \* returned (index, kind) and the material it was given
    bsdf_cycles,        \* number of cycle_bsdf_mode calls made so far
    gi_cycles,          \* number of cycle_gi_mode calls made so far
    \* rt::run and rt::Input
    hardware_concurrency, \* what std::thread::hardware_concurrency returns
    poll_counter,       \* Input::poll_counter
    frame,              \* the frame counter of rt::run
    target,             \* the draw::Image: [w, h, data], data[x + y * w + 1]
    main_pc,            \* where the main thread is: "sync", "draw", "spawn"
    \* the locals of one World::draw call
    thread_count,
    rows_per_thread,
    t,                  \* the loop variable of the loop that starts the workers
    threads,            \* the workers started: [y_start, y_end, x, y]
    \* what one draw call did
    target_before,      \* target.data when the draw call began
    visits,             \* pixel -> number of loop iterations run for it
    casts,              \* pixel -> number of primary rays cast for it
    sets,               \* pixel -> number of target.set calls made for it
    history,            \* one record per finished draw call, oldest first
    \* calls outside the frame loop
    mesh,               \* the Mesh of one compute_bvh call and the call's progress
    loader,             \* one load_mesh call: the lines left and the Mesh so far
    shading,            \* one Material::shade call: its arguments and what it did
    ray                 \* one World::cast_ray call: its arguments and what it did

world_vars == << object_data, material_data, light_data, camera_position,
                 camera_pitch, camera_yaw, camera_roll, background_color,
                 fov, checkerboard, shadows, bsdf_mode, gi_mode >>

caller_vars == << ops, refs, bsdf_cycles, gi_cycles >>

frame_vars == << hardware_concurrency, poll_counter, frame, target, main_pc >>

draw_vars == << thread_count, rows_per_thread, t, threads, target_before,
               visits, casts, sets, history >>

asset_vars == << mesh, loader, shading, ray >>

vars == << world_vars, caller_vars, frame_vars, draw_vars, asset_vars >>

(***************************************************************************)
(* Colours.                                                                *)
(***************************************************************************)
\* draw::Color::rgba with the default alpha.
rgba(r, g, b) == [r |-> r, g |-> g, b |-> b, a |-> 255]

CLEAR == [r |-> 0, g |-> 0, b |-> 0, a |-> 0]
BLACK == rgba(0, 0, 0)
PICO_RED == rgba(255, 0, 77)
PICO_DARK_GRAY == rgba(95, 87, 79)

\* raytracer::Color(draw::Color): each channel divided by 255, here to the
\* nearest thousandth.
FromDrawColor(c) ==
    << (c.r * 1000 + 127) \div 255,
       (c.g * 1000 + 127) \div 255,
       (c.b * 1000 + 127) \div 255 >>

\* raytracer::Color::operator==
ColorEq(a, b) == a[1] = b[1] /\ a[2] = b[2] /\ a[3] = b[3]

(***************************************************************************)
(* Materials.                                                              *)
(***************************************************************************)
SolidColorMaterial(color) == [kind |-> "Solid", color |-> color]

LambertMaterial(color, diffuse_reflectance) ==
    [kind |-> "Lambert", color |-> color,
     diffuse_reflectance |-> diffuse_reflectance]

BsdfMaterial(color, emissive, roughness, metallic) ==
    [kind |-> "Bsdf", color |-> color, emissive |-> emissive,
     roughness |-> roughness, metallic |-> metallic]

\* The material World::World and World::add(Object) use.
DefaultMaterial == SolidColorMaterial(FromDrawColor(PICO_RED))

\* The virtual Material::operator==, dispatched on the stored material
\* (the left operand of **begin == e); the dynamic_cast of the right
\* operand succeeds exactly when it has the same concrete class.
SolidEq(self, rhs) == rhs.kind = "Solid" /\ ColorEq(self.color, rhs.color)

LambertEq(self, rhs) == rhs.kind = "Lambert" /\ ColorEq(self.color, rhs.color)

BsdfEq(self, rhs) ==
    /\ rhs.kind = "Bsdf"
    /\ ColorEq(self.color, rhs.color)
    /\ self.roughness = rhs.roughness
    /\ self.metallic = rhs.metallic

\* Variant of MaterialEq that compares the identity of the two materials,
\* which no stored material shares with an argument of add.
MaterialEq_Identity(self, rhs) == FALSE

\* Material::operator==, dispatched on the kind of self.
MaterialEq(self, rhs) ==
    CASE self.kind = "Solid" -> SolidEq(self, rhs)
      [] self.kind = "Lambert" -> LambertEq(self, rhs)
      [] self.kind = "Bsdf" -> BsdfEq(self, rhs)

\* indirect_find over material_data: the position of the first stored
\* material that compares equal to e, or Len + 1 for end().
indirect_find(data, e) ==
    IF \E i \in 1..Len(data) : MaterialEq(data[i], e)
    THEN CHOOSE i \in 1..Len(data) :
            /\ MaterialEq(data[i], e)
            /\ \A j \in 1..(i - 1) : ~MaterialEq(data[j], e)
    ELSE Len(data) + 1

(***************************************************************************)
(* Vectors, matrices and angles.  An angle is a whole number of quarter    *)
(* turns.                                                                  *)
(***************************************************************************)
\* Angle::cos and Angle::sin
AngleCos(a) == CASE a % 4 = 0 -> 1 [] a % 4 = 1 -> 0 [] a % 4 = 2 -> -1 [] a % 4 = 3 -> 0

AngleSin(a) == CASE a % 4 = 0 -> 0 [] a % 4 = 1 -> 1 [] a % 4 = 2 -> 0 [] a % 4 = 3 -> -1

\* Matrix<f32, 3, 3>::rotation, one operator per axis.
RotationPitch(a) ==
    << << 1, 0, 0 >>,
       << 0, AngleCos(a), -AngleSin(a) >>,
       << 0, AngleSin(a), AngleCos(a) >> >>

RotationYaw(a) ==
    << << AngleCos(a), 0, AngleSin(a) >>,
       << 0, 1, 0 >>,
       << -AngleSin(a), 0, AngleCos(a) >> >>

\* Matrix * Matrix for 3x3 operands.
MatMul(A, B) ==
    [i \in 1..3 |-> [j \in 1..3 |->
        A[i][1] * B[1][j] + A[i][2] * B[2][j] + A[i][3] * B[3][j]]]

\* Vector * Matrix: the vector is a row, result[j] = sum over k of v[k] * M[k][j].
VecMul(v, M) ==
    [j \in 1..3 |-> v[1] * M[1][j] + v[2] * M[2][j] + v[3] * M[3][j]]

VecAdd(a, b) == << a[1] + b[1], a[2] + b[2], a[3] + b[3] >>

VecSub(a, b) == << a[1] - b[1], a[2] - b[2], a[3] - b[3] >>

Dot(a, b) == a[1] * b[1] + a[2] * b[2] + a[3] * b[3]

(***************************************************************************)
(* Shapes and lights.                                                      *)
(***************************************************************************)
Sphere(position, radius) ==
    [kind |-> "Sphere", position |-> position, radius |-> radius]

Plane(position, normal) ==
    [kind |-> "Plane", position |-> position, normal |-> normal]

PointLight(position, color) == [position |-> position, color |-> color]

(***************************************************************************)
(* Modes.                                                                  *)
(***************************************************************************)
\* BsdfMaterial::Mode, in declaration order.
Mode == << "Default", "Diffuse", "CookTorrance", "Fresnel",
           "NormalDistribution", "Microfacets" >>

\* BsdfMaterial::GiMode, in declaration order.
GiMode == << "None", "Simple" >>

Range(s) == { s[i] : i \in 1..Len(s) }

(***************************************************************************)
(* The values the caller passes to the World API.                          *)
(***************************************************************************)
Gray == << 500, 500, 500 >>

ShapeInputs ==
    { Sphere(<< 0, 0, 5 >>, 1), Plane(<< 0, -1, 0 >>, << 0, 1, 0 >>) }

MaterialInputs ==
    { DefaultMaterial,
      SolidColorMaterial(Gray),
      LambertMaterial(Gray, 1000),
      LambertMaterial(Gray, 400),
      BsdfMaterial(Gray, << 0, 0, 0 >>, 1000, 0),
      BsdfMaterial(Gray, << 1000, 1000, 1000 >>, 1000, 0),
      BsdfMaterial(Gray, << 0, 0, 0 >>, 600, 0) }

LightInputs == { PointLight(<< 0, 5, 5 >>, << 1000, 600, 450 >>) }

MoveInputs == { << 0, 0, 1 >>, << 1, 0, 0 >> }

AngleInputs == { 1, -1 }

FovInputs == { 80, 90 }

(***************************************************************************)
(* raytracer::World                                                        *)
(***************************************************************************)
\* World::World and the default member initialisers.
WorldInit ==
    /\ object_data = << >>
    /\ material_data = << DefaultMaterial >>
    /\ light_data = << >>
    /\ camera_position = << 0, 0, 0 >>
    /\ camera_pitch = 0
    /\ camera_yaw = 0
    /\ camera_roll = 0
    /\ background_color = FromDrawColor(BLACK)
    /\ fov = 80
    /\ checkerboard = TRUE
    /\ shadows = TRUE
    /\ bsdf_mode = "Default"
    /\ gi_mode = "None"

\* World::material(index): indices count from 0.
material(index) == material_data[index + 1]

\* The object a Ref resolves to (Ref::operator*).
Deref(ref) == object_data[ref.index + 1]

\* Variant of AddMaterialData that appends without looking for an equal entry.
AddMaterialData_AlwaysAppend(data, mat) == Append(data, mat)

\* Variant of AddMaterialData that inserts a new entry at the front.
AddMaterialData_Prepend(data, mat) ==
    IF indirect_find(data, mat) # Len(data) + 1
    THEN data
    ELSE << mat >> \o data

\* The material collection World::add(object, material) leaves.
AddMaterialData(data, mat) ==
    IF indirect_find(data, mat) # Len(data) + 1
    THEN data
    ELSE Append(data, mat)

\* Variant of AddMaterialIndex that binds a new material to the size of the
\* collection rather than to its last position.
AddMaterialIndex_Size(data, mat) ==
    IF indirect_find(data, mat) # Len(data) + 1
    THEN indirect_find(data, mat) - 1
    ELSE Len(data) + 1

\* The material_index World::add(object, material) binds the object to.
AddMaterialIndex(data, mat) ==
    IF indirect_find(data, mat) # Len(data) + 1
    THEN indirect_find(data, mat) - 1
    ELSE Len(Append(data, mat)) - 1

\* World::add(Object, Mat) -> Ref<Object>
add(object, mat) ==
    /\ material_data' = AddMaterialData(material_data, mat)
    /\ object_data' =
          Append(object_data,
                 [shape |-> object,
                  material |-> AddMaterialIndex(material_data, mat)])
    /\ refs' = Append(refs, [index |-> Len(object_data') - 1,
                             kind |-> object.kind,
                             mat |-> mat])
    /\ UNCHANGED << light_data, camera_position, camera_pitch, camera_yaw,
                    camera_roll, background_color, fov, checkerboard,
                    shadows, bsdf_mode, gi_mode, bsdf_cycles, gi_cycles >>

\* World::add(Object) -> Ref<Object>
add_default(object) == add(object, SolidColorMaterial(FromDrawColor(PICO_RED)))

\* World::add(PointLight)
add_light(light) ==
    /\ light_data' = Append(light_data, light)
    /\ UNCHANGED << object_data, material_data, camera_position, camera_pitch,
                    camera_yaw, camera_roll, background_color, fov,
                    checkerboard, shadows, bsdf_mode, gi_mode, refs,
                    bsdf_cycles, gi_cycles >>

\* The camera position World::move leaves.
Moved(position, yaw, vector) ==
    VecAdd(position, VecMul(vector, RotationYaw(yaw)))

\* World::move
move(vector) ==
    /\ camera_position' = Moved(camera_position, camera_yaw, vector)
    /\ UNCHANGED << object_data, material_data, light_data, camera_pitch,
                    camera_yaw, camera_roll, background_color, fov,
                    checkerboard, shadows, bsdf_mode, gi_mode, refs,
                    bsdf_cycles, gi_cycles >>

\* World::rotate_pitch
rotate_pitch(angle) ==
    /\ camera_pitch' = camera_pitch + angle
    /\ UNCHANGED << object_data, material_data, light_data, camera_position,
                    camera_yaw, camera_roll, background_color, fov,
                    checkerboard, shadows, bsdf_mode, gi_mode, refs,
                    bsdf_cycles, gi_cycles >>

\* World::rotate_yaw
rotate_yaw(angle) ==
    /\ camera_yaw' = camera_yaw + angle
    /\ UNCHANGED << object_data, material_data, light_data, camera_position,
                    camera_pitch, camera_roll, background_color, fov,
                    checkerboard, shadows, bsdf_mode, gi_mode, refs,
                    bsdf_cycles, gi_cycles >>

\* World::rotate_roll
rotate_roll(angle) ==
    /\ camera_roll' = camera_roll + angle
    /\ UNCHANGED << object_data, material_data, light_data, camera_position,
                    camera_pitch, camera_yaw, background_color, fov,
                    checkerboard, shadows, bsdf_mode, gi_mode, refs,
                    bsdf_cycles, gi_cycles >>

\* World::set_fov
set_fov(angle) ==
    /\ fov' = angle
    /\ UNCHANGED << object_data, material_data, light_data, camera_position,
                    camera_pitch, camera_yaw, camera_roll, background_color,
                    checkerboard, shadows, bsdf_mode, gi_mode, refs,
                    bsdf_cycles, gi_cycles >>

\* World::set_checkerboard
set_checkerboard(value) ==
    /\ checkerboard' = value
    /\ UNCHANGED << object_data, material_data, light_data, camera_position,
                    camera_pitch, camera_yaw, camera_roll, background_color,
                    fov, shadows, bsdf_mode, gi_mode, refs, bsdf_cycles,
                    gi_cycles >>

\* World::set_shadows
set_shadows(value) ==
    /\ shadows' = value
    /\ UNCHANGED << object_data, material_data, light_data, camera_position,
                    camera_pitch, camera_yaw, camera_roll, background_color,
                    fov, checkerboard, bsdf_mode, gi_mode, refs, bsdf_cycles,
                    gi_cycles >>

\* World::set_bsdf_mode
set_bsdf_mode(value) ==
    /\ bsdf_mode' = value
    /\ UNCHANGED << object_data, material_data, light_data, camera_position,
                    camera_pitch, camera_yaw, camera_roll, background_color,
                    fov, checkerboard, shadows, gi_mode, refs, bsdf_cycles,
                    gi_cycles >>

\* World::set_gi_mode
set_gi_mode(value) ==
    /\ gi_mode' = value
    /\ UNCHANGED << object_data, material_data, light_data, camera_position,
                    camera_pitch, camera_yaw, camera_roll, background_color,
                    fov, checkerboard, shadows, bsdf_mode, refs, bsdf_cycles,
                    gi_cycles >>

\* Variant of NextBsdfMode that stays at the last variant.
NextBsdfMode_NoWrap(m) ==
    CASE m = "Default" -> "Diffuse"
      [] m = "Diffuse" -> "CookTorrance"
      [] m = "CookTorrance" -> "Fresnel"
      [] m = "Fresnel" -> "NormalDistribution"
      [] m = "NormalDistribution" -> "Microfacets"
      [] m = "Microfacets" -> "Microfacets"

\* Variant of NextBsdfMode that passes over Fresnel.
NextBsdfMode_SkipFresnel(m) ==
    CASE m = "Default" -> "Diffuse"
      [] m = "Diffuse" -> "CookTorrance"
      [] m = "CookTorrance" -> "NormalDistribution"
      [] m = "Fresnel" -> "NormalDistribution"
      [] m = "NormalDistribution" -> "Microfacets"
      [] m = "Microfacets" -> "Default"

\* The switch of World::cycle_bsdf_mode.
NextBsdfMode(m) ==
    CASE m = "Default" -> "Diffuse"
      [] m = "Diffuse" -> "CookTorrance"
      [] m = "CookTorrance" -> "Fresnel"
      [] m = "Fresnel" -> "NormalDistribution"
      [] m = "NormalDistribution" -> "Microfacets"
      [] m = "Microfacets" -> "Default"

\* The switch of World::cycle_gi_mode.
NextGiMode(m) ==
    CASE m = "None" -> "Simple"
      [] m = "Simple" -> "None"

\* World::cycle_bsdf_mode
cycle_bsdf_mode ==
    /\ bsdf_mode' = NextBsdfMode(bsdf_mode)
    /\ bsdf_cycles' = bsdf_cycles + 1
    /\ UNCHANGED << object_data, material_data, light_data, camera_position,
                    camera_pitch, camera_yaw, camera_roll, background_color,
                    fov, checkerboard, shadows, gi_mode, refs, gi_cycles >>

\* World::cycle_gi_mode
cycle_gi_mode ==
    /\ gi_mode' = NextGiMode(gi_mode)
    /\ gi_cycles' = gi_cycles + 1
    /\ UNCHANGED << object_data, material_data, light_data, camera_position,
                    camera_pitch, camera_yaw, camera_roll, background_color,
                    fov, checkerboard, shadows, bsdf_mode, refs, bsdf_cycles >>

(***************************************************************************)
(* Fixed-point helpers.  A distance, a hit point and a normal are held in  *)
(* thousandths.                                                            *)
(***************************************************************************)
RECURSIVE IsqrtIter(_, _)
IsqrtIter(n, x) ==
    LET y == (x + n \div x) \div 2
    IN  IF y >= x THEN x ELSE IsqrtIter(n, y)

\* std::sqrt, rounded down to a whole number.
Isqrt(n) == IF n <= 0 THEN 0 ELSE IsqrtIter(n, n)

\* n / d in thousandths, rounded down.
FixDiv(n, d) == IF d < 0 THEN ((0 - n) * 1000) \div (0 - d) ELSE (n * 1000) \div d

VecScale(v, k) == << v[1] * k, v[2] * k, v[3] * k >>

\* Vector::magnitude
Magnitude(v) == Isqrt(Dot(v, v))

\* Vector::normalized, in thousandths.
Normalized(v) ==
    << FixDiv(v[1], Magnitude(v)), FixDiv(v[2], Magnitude(v)),
       FixDiv(v[3], Magnitude(v)) >>

Clamp(v, lo, hi) == IF v < lo THEN lo ELSE IF v > hi THEN hi ELSE v

\* raytracer::Color::operator draw::Color: each channel is scaled by 255,
\* clamped to [0, 255] and narrowed to u8, which drops the fraction.
ToDrawColor(c) ==
    rgba(Clamp(c[1] * 255, 0, 255000) \div 1000,
         Clamp(c[2] * 255, 0, 255000) \div 1000,
         Clamp(c[3] * 255, 0, 255000) \div 1000)

(***************************************************************************)
(* Mesh::intersect.  The vertices and the origin of the ray are whole      *)
(* numbers in the local frame of the Mesh and the direction of the ray is  *)
(* in thousandths, so the tests of intersect_triangle against EPS are      *)
(* tests against zero.  A float of the slab test is a quotient [n, d] with *)
(* d > 0, an infinity [1, 0] or [-1, 0], or NaN [0, 0].  pitch, yaw and    *)
(* roll of the Mesh are zero, and a zero component of the direction is a   *)
(* positive zero.                                                          *)
(***************************************************************************)
\* std::nullopt
NoHit ==
    [some |-> FALSE, origin |-> << 0, 0, 0 >>, normal |-> << 0, 0, 0 >>,
     distance |-> 0, material_index |-> 0]

SomeHit(origin, normal, distance, material_index) ==
    [some |-> TRUE, origin |-> origin, normal |-> normal,
     distance |-> distance, material_index |-> material_index]

\* std::numeric_limits<f32>::max()
FLT_MAX == 2000000000

Sign(x) == IF x > 0 THEN 1 ELSE IF x < 0 THEN -1 ELSE 0

\* Vector::cross
Cross(a, b) ==
    << a[2] * b[3] - a[3] * b[2], a[3] * b[1] - a[1] * b[3],
       a[1] * b[2] - a[2] * b[1] >>

\* a * dir_inv for dir_inv = 1.0f / d.
TimesInverse(a, d) ==
    IF d > 0 THEN [n |-> a, d |-> d]
    ELSE IF d < 0 THEN [n |-> 0 - a, d |-> 0 - d]
    ELSE [n |-> Sign(a), d |-> 0]

\* x < y on floats: false when either is NaN.
FloatLess(x, y) ==
    IF (x.n = 0 /\ x.d = 0) \/ (y.n = 0 /\ y.d = 0)
    THEN FALSE
    ELSE IF x.d = 0 /\ y.d = 0
         THEN x.n < y.n
         ELSE x.n * y.d < y.n * x.d

\* Mesh::intersect_aabb: what it returns.  std::max(a, b) is b when a < b
\* and a otherwise, std::min(a, b) is b when b < a and a otherwise.
intersect_aabb(origin, dir, bmin, bmax) ==
    LET axis(s, i) ==
            LET a == TimesInverse(bmin[i] - origin[i], dir[i])
                b == TimesInverse(bmax[i] - origin[i], dir[i])
                t0 == IF FloatLess(b, a) THEN b ELSE a
                t1 == IF FloatLess(b, a) THEN a ELSE b
                tmin == IF FloatLess(s.tmin, t0) THEN t0 ELSE s.tmin
                tmax == IF FloatLess(t1, s.tmax) THEN t1 ELSE s.tmax
            IN  IF s.returned
                THEN s
                ELSE [returned |-> FloatLess(tmax, tmin), tmin |-> tmin,
                      tmax |-> tmax]
        entry == [returned |-> FALSE, tmin |-> [n |-> -1, d |-> 0],
                  tmax |-> [n |-> 1, d |-> 0]]
    IN  ~axis(axis(axis(entry, 1), 2), 3).returned

\* Mesh::intersect_triangle.  u, v and t are compared as numerators over
\* |det|: decided is given det and the numerators of u, v and t over det.
intersect_triangle(origin, dir, v0, v1, v2) ==
    LET e1 == VecSub(v1, v0)
        e2 == VecSub(v2, v0)
        pvec == Cross(dir, e2)
        tvec == VecSub(origin, v0)
        qvec == Cross(tvec, e1)
        hit_at(distance) ==
            SomeHit(VecAdd(VecScale(origin, 1000),
                           [i \in 1..3 |-> (dir[i] * distance) \div 1000]),
                    Normalized(Cross(e1, e2)), distance, 0)
        decided(det, u, v, tn) ==
            IF det = 0
            THEN NoHit
            ELSE IF Sign(det) * u < 0 \/ Sign(det) * u > Sign(det) * det
                    \/ Sign(det) * v < 0
                    \/ Sign(det) * (u + v) > Sign(det) * det
                    \/ Sign(det) * tn <= 0
                 THEN NoHit
                 ELSE hit_at((Sign(det) * tn * 1000000) \div (Sign(det) * det))
    IN  decided(Dot(e1, pvec), Dot(tvec, pvec), Dot(dir, qvec), Dot(e2, qvec))

RECURSIVE intersect_bvh_EarlyOut(_, _, _, _, _)
\* Variant of intersect_bvh that does not visit the right child once the
\* left child has reported a hit.
intersect_bvh_EarlyOut(object, node, origin, dir, best) ==
    LET n == object.nodes[node]
        face(i) == object.faces[n.face_index + i]
        vertex(i, c) == object.vertices[face(i)[c] + 1]
        \* the body of the loop over the faces of a leaf
        better(state, hit) ==
            IF hit.some /\ hit.distance < state.best_distance
            THEN [state EXCEPT !.best_distance = hit.distance,
                               !.best_hit = hit, !.hit_any = TRUE]
            ELSE state
        RECURSIVE Leaf(_, _)
        Leaf(i, state) ==
            IF i > n.face_count
            THEN state
            ELSE Leaf(i + 1,
                      better(state,
                             intersect_triangle(origin, dir, vertex(i, 1),
                                                vertex(i, 2), vertex(i, 3))))
        called == [best EXCEPT !.hit_any = FALSE, !.calls = Append(@, node)]
        \* hit_any |= what the call on a child returned
        merged(state, sub) ==
            [sub EXCEPT !.hit_any = state.hit_any \/ sub.hit_any]
        after(state, child) ==
            IF child = 0
            THEN state
            ELSE merged(state, intersect_bvh_EarlyOut(object, child, origin, dir, state))
        skipping(left) ==
            IF left.hit_any THEN left ELSE after(left, n.right)
    IN  IF ~intersect_aabb(origin, dir, n.bound_min, n.bound_max)
        THEN called
        ELSE IF n.left = 0 /\ n.right = 0
             THEN Leaf(1, called)
             ELSE skipping(after(called, n.left))

RECURSIVE intersect_bvh(_, _, _, _, _)
\* Mesh::intersect_bvh on the node numbered node: best_distance and
\* best_hit after the call, what the call returns (hit_any) and the nodes
\* it was called on so far (calls).
intersect_bvh(object, node, origin, dir, best) ==
    LET n == object.nodes[node]
        face(i) == object.faces[n.face_index + i]
        vertex(i, c) == object.vertices[face(i)[c] + 1]
        \* the body of the loop over the faces of a leaf
        better(state, hit) ==
            IF hit.some /\ hit.distance < state.best_distance
            THEN [state EXCEPT !.best_distance = hit.distance,
                               !.best_hit = hit, !.hit_any = TRUE]
            ELSE state
        RECURSIVE Leaf(_, _)
        Leaf(i, state) ==
            IF i > n.face_count
            THEN state
            ELSE Leaf(i + 1,
                      better(state,
                             intersect_triangle(origin, dir, vertex(i, 1),
                                                vertex(i, 2), vertex(i, 3))))
        called == [best EXCEPT !.hit_any = FALSE, !.calls = Append(@, node)]
        \* hit_any |= what the call on a child returned
        merged(state, sub) ==
            [sub EXCEPT !.hit_any = state.hit_any \/ sub.hit_any]
        after(state, child) ==
            IF child = 0
            THEN state
            ELSE merged(state, intersect_bvh(object, child, origin, dir, state))
    IN  IF ~intersect_aabb(origin, dir, n.bound_min, n.bound_max)
        THEN called
        ELSE IF n.left = 0 /\ n.right = 0
             THEN Leaf(1, called)
             ELSE after(after(called, n.left), n.right)

\* raytracer::Mesh as World::add receives it: nodes is the bvh, its first
\* element the root, and empty when bvh is null.
Mesh(position, scale, vertices, faces, nodes) ==
    [kind |-> "Mesh", position |-> position, scale |-> scale,
     vertices |-> vertices, faces |-> faces, nodes |-> nodes]

\* The Mesh in its local frame, held in units of 1 / scale so that the
\* local origin of a ray is whole.
Local(object) ==
    [object EXCEPT
        !.vertices = [k \in 1..Len(@) |-> VecScale(@[k], object.scale)],
        !.nodes = [k \in 1..Len(@) |->
                      [@[k] EXCEPT !.bound_min = VecScale(@, object.scale),
                                   !.bound_max = VecScale(@, object.scale)]]]

\* The traversal Mesh::intersect starts: the local ray and the call of
\* intersect_bvh on the root.  world_to_local takes position away and
\* divides by scale.
Traversal(object, origin, direction) ==
    intersect_bvh(Local(object), 1, VecSub(origin, object.position),
                  Normalized(direction),
                  [best_distance |-> FLT_MAX, best_hit |-> NoHit,
                   hit_any |-> FALSE, calls |-> << >>])

\* Mesh::intersect: the hit in world space, its distance the length from
\* the origin of the ray to it.
intersect(object, origin, direction) ==
    LET world(point) == VecAdd(point, VecScale(object.position, 1000))
        far(point) == Magnitude(VecSub(point, VecScale(origin, 1000)))
        returned(found) ==
            IF found.hit_any
            THEN SomeHit(world(found.best_hit.origin),
                         Normalized(found.best_hit.normal),
                         far(world(found.best_hit.origin)), 0)
            ELSE NoHit
    IN  IF object.nodes = << >>
        THEN NoHit
        ELSE returned(Traversal(object, origin, direction))

(***************************************************************************)
(* World::cast_ray.  origin is in world units, direction is any integer    *)
(* vector; Hit.distance is the ray parameter in thousandths.               *)
(***************************************************************************)
\* origin + direction * distance, in thousandths.
HitPoint(origin, direction, distance) ==
    VecAdd(VecScale(origin, 1000), VecScale(direction, distance))

\* Variant of SphereDistance that takes the larger root whenever it is
\* positive.
SphereDistance_LargerRoot(object, origin, direction) ==
    LET l == VecSub(origin, object.position)
        a == Dot(direction, direction)
        b == 2 * Dot(direction, l)
        c == Dot(l, l) - object.radius * object.radius
        disc == b * b - 4 * a * c
        t1 == FixDiv((0 - b) + Isqrt(disc), 2 * a)
    IN  IF disc >= 0 /\ t1 > 0 THEN t1 ELSE -1

\* The distance the Sphere branch computes: the smaller positive root, or
\* -1 when the discriminant is negative or no root is positive.
SphereDistance(object, origin, direction) ==
    LET l == VecSub(origin, object.position)
        a == Dot(direction, direction)
        b == 2 * Dot(direction, l)
        c == Dot(l, l) - object.radius * object.radius
        disc == b * b - 4 * a * c
        sqrt_disc == Isqrt(disc)
        t0 == FixDiv((0 - b) - sqrt_disc, 2 * a)
        t1 == FixDiv((0 - b) + sqrt_disc, 2 * a)
    IN  IF disc >= 0
        THEN (IF t0 > 0 THEN t0 ELSE IF t1 > 0 THEN t1 ELSE -1)
        ELSE -1

\* The distance the Plane branch computes, or -1 when the ray is parallel
\* to the plane.
PlaneDistance(object, origin, direction) ==
    LET denom == Dot(direction, object.normal)
    IN  IF denom # 0
        THEN FixDiv(Dot(VecSub(object.position, origin), object.normal), denom)
        ELSE -1

\* Variant of VisitObject in which a hit at the distance of the best hit
\* replaces it.
VisitObject_LastWins(best_hit, entry, origin, direction) ==
    LET object == entry.shape
        \* the Sphere and the Plane branch after distance is computed
        at(distance, centre) ==
            IF distance > 0 /\ (~best_hit.some \/ distance <= best_hit.distance)
            THEN SomeHit(HitPoint(origin, direction, distance),
                         IF object.kind = "Sphere"
                         THEN Normalized(VecSub(HitPoint(origin, direction, distance),
                                                centre))
                         ELSE Normalized(object.normal),
                         distance, entry.material)
            ELSE best_hit
        \* the Mesh branch after intersect has returned
        against(hit) ==
            IF hit.some /\ (~best_hit.some \/ hit.distance <= best_hit.distance)
            THEN [hit EXCEPT !.material_index = entry.material]
            ELSE best_hit
    IN  CASE object.kind = "Sphere" ->
               at(SphereDistance(object, origin, direction),
                  VecScale(object.position, 1000))
          [] object.kind = "Plane" ->
               at(PlaneDistance(object, origin, direction),
                  VecScale(object.position, 1000))
          [] object.kind = "Mesh" ->
               against(intersect(object, origin, direction))

\* One iteration of the loop of cast_ray: the best hit after the object.
VisitObject(best_hit, entry, origin, direction) ==
    LET object == entry.shape
        \* the Sphere and the Plane branch after distance is computed
        at(distance, centre) ==
            IF distance > 0 /\ (~best_hit.some \/ distance < best_hit.distance)
            THEN SomeHit(HitPoint(origin, direction, distance),
                         IF object.kind = "Sphere"
                         THEN Normalized(VecSub(HitPoint(origin, direction, distance),
                                                centre))
                         ELSE Normalized(object.normal),
                         distance, entry.material)
            ELSE best_hit
        \* the Mesh branch after intersect has returned
        against(hit) ==
            IF hit.some /\ (~best_hit.some \/ hit.distance < best_hit.distance)
            THEN [hit EXCEPT !.material_index = entry.material]
            ELSE best_hit
    IN  CASE object.kind = "Sphere" ->
               at(SphereDistance(object, origin, direction),
                  VecScale(object.position, 1000))
          [] object.kind = "Plane" ->
               at(PlaneDistance(object, origin, direction),
                  VecScale(object.position, 1000))
          [] object.kind = "Mesh" ->
               against(intersect(object, origin, direction))

RECURSIVE CastRayFrom(_, _, _, _, _)
CastRayFrom(objects, i, best_hit, origin, direction) ==
    IF i > Len(objects)
    THEN best_hit
    ELSE CastRayFrom(objects, i + 1,
                     VisitObject(best_hit, objects[i], origin, direction),
                     origin, direction)

\* World::cast_ray over the given objects.
cast_ray(objects, origin, direction) ==
    CastRayFrom(objects, 1, NoHit, origin, direction)

(***************************************************************************)
(* Shading.  A colour, a unit vector, a cosine and a material parameter    *)
(* are held in thousandths.  A position of the World is in whole units of  *)
(* a thousandth of the unit of the program, Hit.origin in thousandths of   *)
(* that unit, so that the offset of 0.001 of a ray origin is one unit.     *)
(***************************************************************************)
RECURSIVE shade(_, _, _), BsdfShade(_, _, _), GiPass(_, _, _)

EPSILON == 1
GI_RING_COUNT == 32
GI_SAMPLES_PER_RING == 32
GI_CLAMP == 1000
GI_MAX_DEPTH == 1

\* Variant of GiEnabled that does not look at gi_mode.
GiEnabled_AnyMode(depth) == depth < GI_MAX_DEPTH

\* The two conditions around the global illumination pass.
GiEnabled(depth) == gi_mode = "Simple" /\ depth < GI_MAX_DEPTH

\* Matrix * scalar
Scaled(v, k) == << (v[1] * k) \div 1000, (v[2] * k) \div 1000, (v[3] * k) \div 1000 >>

\* Matrix::hadamard
hadamard(a, b) ==
    << (a[1] * b[1]) \div 1000, (a[2] * b[2]) \div 1000, (a[3] * b[3]) \div 1000 >>

\* math::mix
mix(lhs, rhs, k) == VecAdd(lhs, Scaled(VecSub(rhs, lhs), k))

\* position - origin for a position of the World and the origin of a Hit,
\* in hundredths of a unit.
Toward(position, origin) ==
    << (position[1] * 1000 - origin[1]) \div 10,
       (position[2] * 1000 - origin[2]) \div 10,
       (position[3] * 1000 - origin[3]) \div 10 >>

\* world.cast_ray(origin, direction) as shade calls it: cast_ray takes the
\* origin rounded to whole units and the direction to hundredths, and
\* Hit.distance is then in tenths of a unit.
CastFrom(origin, direction) ==
    cast_ray(object_data,
             << origin[1] \div 1000, origin[2] \div 1000, origin[3] \div 1000 >>,
             << direction[1] \div 10, direction[2] \div 10, direction[3] \div 10 >>)

\* The shadow test as if any hit of the shadow ray hid the light.
Occluded_AnyHit(hit, light) ==
    CastFrom(VecAdd(hit.origin, Normalized(hit.normal)),
             Normalized(Toward(light.position, hit.origin))).some

\* The shadow test of LambertMaterial::shade: the shadow ray from the
\* offset hit point hits something nearer than the light.
Occluded(hit, light) ==
    LET light_direction == Normalized(Toward(light.position, hit.origin))
        distance_to_light == Magnitude(Toward(light.position, hit.origin))
        shadow_origin == VecAdd(hit.origin, Normalized(hit.normal))
        shadow_hit == CastFrom(shadow_origin, light_direction)
    IN  shadow_hit.some /\ shadow_hit.distance * 10 < distance_to_light

\* LambertMaterial::shade
LambertShade(mat, hit) ==
    LET lambert_diffuse(light) ==
            LET ndotl == Dot(hit.normal,
                             Normalized(Toward(light.position, hit.origin))) \div 1000
            IN  Scaled(hadamard(light.color, mat.color),
                       IF ndotl > 0 THEN ndotl ELSE 0)
        RECURSIVE Lights(_, _)
        Lights(i, out_color) ==
            IF i > Len(light_data) THEN out_color
            ELSE Lights(i + 1,
                        IF shadows /\ Occluded(hit, light_data[i])
                        THEN out_color
                        ELSE VecAdd(out_color,
                                    Scaled(lambert_diffuse(light_data[i]),
                                           mat.diffuse_reflectance)))
    IN  Lights(1, << 0, 0, 0 >>)

\* The terms BsdfMaterial::shade computes for one light.
DirectTerms(mat, hit, light) ==
    LET Mul(a, b) == (a * b) \div 1000
        sq(a) == Mul(a, a)
        Pow5(a) == Mul(sq(sq(a)), a)
        roughness == sq(mat.roughness)
        base_reflectivity == mix(<< 40, 40, 40 >>, mat.color, mat.metallic)
        view_direction == Normalized(Toward(camera_position, hit.origin))
        light_direction == Normalized(Toward(light.position, hit.origin))
        half == Normalized(VecAdd(view_direction, light_direction))
        normal_distribution ==
            FixDiv(sq(roughness),
                   Mul(3142, sq(Mul(sq(Dot(hit.normal, half) \div 1000),
                                    sq(roughness) - 1000) + 1000)))
        fresnel ==
            VecAdd(base_reflectivity,
                   Scaled(VecSub(<< 1000, 1000, 1000 >>, base_reflectivity),
                          Pow5(1000 - Clamp(Dot(half, view_direction) \div 1000,
                                            0, 1000))))
        direct_k == sq(roughness + 1000) \div 8
        ndotv == Clamp(Dot(hit.normal, view_direction) \div 1000, 0, 1000)
        ndotl == Clamp(Dot(hit.normal, light_direction) \div 1000, 0, 1000)
        geometry(c) ==
            LET d == Mul(c, 1000 - direct_k) + direct_k
            IN  FixDiv(c, IF d < EPSILON THEN EPSILON ELSE d)
        microfacets == Mul(geometry(ndotv), geometry(ndotl))
        numerator == Scaled(Scaled(fresnel, normal_distribution), microfacets)
        \* e / (4 * v.n * l.n), divided by one factor after the other to keep
        \* the thousandths of both
        over(e) ==
            FixDiv(FixDiv(e, 4 * (Dot(view_direction, hit.normal) \div 1000)),
                   Dot(light_direction, hit.normal) \div 1000)
        cook_torrance == << over(numerator[1]), over(numerator[2]), over(numerator[3]) >>
        lambert_diffuse ==
            Scaled(hadamard(light.color, mat.color),
                   IF Dot(hit.normal, light_direction) \div 1000 > 0
                   THEN Dot(hit.normal, light_direction) \div 1000 ELSE 0)
        diffuse_reflectance ==
            Scaled(VecSub(<< 1000, 1000, 1000 >>, fresnel), 1000 - mat.metallic)
    IN  [normal_distribution |-> normal_distribution, fresnel |-> fresnel,
         microfacets |-> microfacets, cook_torrance |-> cook_torrance,
         lambert_diffuse |-> lambert_diffuse,
         diffuse_reflectance |-> diffuse_reflectance, ndotl |-> ndotl]

\* cos(2 * pi * s / 32); the sine is Cos32(s + 24).
Cos32(s) ==
    LET quarter == << 1000, 981, 924, 831, 707, 556, 383, 195, 0 >>
        k == s % 32
    IN  IF k <= 8 THEN quarter[k + 1]
        ELSE IF k <= 16 THEN 0 - quarter[17 - k]
        ELSE IF k <= 24 THEN 0 - quarter[k - 15]
        ELSE quarter[33 - k]

\* The global illumination pass of BsdfMaterial::shade: gi_color and the
\* number of bounce rays cast, those of the shade calls on the bounce hits
\* included.
GiPass(mat, hit, depth) ==
    LET Mul(a, b) == (a * b) \div 1000
        roughness == Mul(mat.roughness, mat.roughness)
        n == hit.normal
        Abs(a) == IF a < 0 THEN 0 - a ELSE a
        \* build_tangent_space
        tangent ==
            IF Abs(n[1]) > Abs(n[3])
            THEN Normalized(<< 0 - n[2], n[1], 0 >>)
            ELSE Normalized(<< 0, 0 - n[3], n[2] >>)
        bitangent ==
            << Mul(n[2], tangent[3]) - Mul(n[3], tangent[2]),
               Mul(n[3], tangent[1]) - Mul(n[1], tangent[3]),
               Mul(n[1], tangent[2]) - Mul(n[2], tangent[1]) >>
        gi_origin == VecAdd(hit.origin, VecScale(n, EPSILON))
        \* gi_directions[r * GI_SAMPLES_PER_RING + s]:
        \* sample_cosine_hemisphere(u1, u2, roughness) for ring r, sample s
        direction(r, s) ==
            LET u1 == ((2 * r + 1) * 1000) \div (2 * GI_RING_COUNT)
                radius == Mul(Isqrt(u1 * 1000), roughness)
                x == Mul(radius, Cos32(s))
                z == Mul(radius, Cos32(s + 24))
                rest == 1000000 - x * x - z * z
            IN  << x, Isqrt(IF rest > 0 THEN rest ELSE 0), z >>
        \* one iteration of the loop over gi_directions
        sample(dir) ==
            LET world_dir ==
                    VecAdd(VecAdd(Scaled(tangent, dir[1]), Scaled(n, dir[2])),
                           Scaled(bitangent, dir[3]))
                bounce_hit == CastFrom(gi_origin, world_dir)
                cosine == Clamp(Dot(world_dir, n) \div 1000, 0, 1000000)
                clamp_fn(e) == IF e < GI_CLAMP THEN e ELSE GI_CLAMP
                clamped(lit) == << clamp_fn(lit[1]), clamp_fn(lit[2]), clamp_fn(lit[3]) >>
                \* the sample, given what shade did on the bounce hit
                bounced(result) ==
                    [color |-> clamped(Scaled(hadamard(mat.color, result.color),
                                              cosine)),
                     rays |-> 1 + result.gi_rays]
            IN  IF bounce_hit.some
                THEN bounced(shade(material(bounce_hit.material_index),
                                   bounce_hit, depth + 1))
                ELSE [color |-> hadamard(mat.color, background_color), rays |-> 1]
        count == GI_RING_COUNT * GI_SAMPLES_PER_RING
        plus(a, b) == [color |-> VecAdd(a.color, b.color), rays |-> a.rays + b.rays]
        \* the loop over gi_directions, for the directions first to last
        RECURSIVE Samples(_, _)
        Samples(first, last) ==
            IF first = last
            THEN sample(direction(first \div GI_SAMPLES_PER_RING,
                                  first % GI_SAMPLES_PER_RING))
            ELSE plus(Samples(first, (first + last) \div 2),
                      Samples((first + last) \div 2 + 1, last))
        averaged(total) ==
            [color |-> << total.color[1] \div count, total.color[2] \div count,
                          total.color[3] \div count >>,
             rays |-> total.rays]
    IN  IF GiEnabled(depth)
        THEN averaged(Samples(0, count - 1))
        ELSE [color |-> << 0, 0, 0 >>, rays |-> 0]

\* BsdfMaterial::shade: the colour returned, whether the reflection pass
\* ran, and the number of global illumination rays cast.
BsdfShade(mat, hit, depth) ==
    LET Mul(a, b) == (a * b) \div 1000
        roughness == Mul(mat.roughness, mat.roughness)
        base_reflectivity == mix(<< 40, 40, 40 >>, mat.color, mat.metallic)
        view_direction == Normalized(Toward(camera_position, hit.origin))
        \* the switch over world.get_bsdf_mode() for one light
        switch(terms, light) ==
                CASE bsdf_mode = "Default" ->
                       VecAdd(hadamard(terms.diffuse_reflectance, terms.lambert_diffuse),
                              Scaled(hadamard(terms.cook_torrance, light.color),
                                     terms.ndotl))
                  [] bsdf_mode = "Diffuse" -> terms.lambert_diffuse
                  [] bsdf_mode = "CookTorrance" -> terms.cook_torrance
                  [] bsdf_mode = "Fresnel" -> terms.fresnel
                  [] bsdf_mode = "NormalDistribution" ->
                       << terms.normal_distribution, terms.normal_distribution,
                          terms.normal_distribution >>
                  [] bsdf_mode = "Microfacets" ->
                       << terms.microfacets, terms.microfacets, terms.microfacets >>
        RECURSIVE Lights(_, _)
        Lights(i, out_color) ==
            IF i > Len(light_data) THEN out_color
            ELSE Lights(i + 1,
                        VecAdd(out_color,
                               switch(DirectTerms(mat, hit, light_data[i]),
                                      light_data[i])))
        \* the condition of the reflection pass, which starts with false
        reflection ==
            FALSE /\ depth < 4 /\ mat.metallic > 0 /\ 1000 - roughness > EPSILON
        \* the body of the reflection pass
        reflected ==
            LET ndotv == Dot(hit.normal, view_direction) \div 1000
                reflect_direction ==
                    Normalized(VecAdd(VecScale(view_direction, -1),
                                      Scaled(hit.normal, 2 * ndotv)))
                next_hit == CastFrom(VecAdd(hit.origin, VecScale(hit.normal, EPSILON)),
                                     reflect_direction)
                grazing == 1000 - Clamp(ndotv, 0, 1000)
                pow5 == Mul(Mul(Mul(grazing, grazing), Mul(grazing, grazing)), grazing)
                schlick ==
                    VecAdd(base_reflectivity,
                           Scaled(VecSub(<< 1000, 1000, 1000 >>, base_reflectivity), pow5))
                seen == IF next_hit.some
                        THEN shade(material(next_hit.material_index), next_hit,
                                   depth + 1).color
                        ELSE background_color
                specular ==
                    hadamard(hadamard(seen, schlick),
                             mix(<< 1000, 1000, 1000 >>, mat.color, mat.metallic))
            IN  Scaled(specular, Mul(mat.metallic, 1000 - roughness))
        result(gi) ==
            [color |-> VecAdd(VecAdd(VecAdd(Lights(1, << 0, 0, 0 >>),
                                            IF reflection THEN reflected
                                            ELSE << 0, 0, 0 >>),
                                     gi.color),
                              mat.emissive),
             reflection |-> reflection,
             gi_rays |-> gi.rays]
    IN  result(GiPass(mat, hit, depth))

\* Material::shade, dispatched on the material: the colour returned,
\* whether the reflection pass ran, and the number of global illumination
\* rays cast.
shade(mat, hit, depth) ==
    CASE mat.kind = "Solid" ->
           [color |-> mat.color, reflection |-> FALSE, gi_rays |-> 0]
      [] mat.kind = "Lambert" ->
           [color |-> LambertShade(mat, hit), reflection |-> FALSE, gi_rays |-> 0]
      [] mat.kind = "Bsdf" -> BsdfShade(mat, hit, depth)

\* A call of shade whose result depends on the calls made before it.
ShadeCall_Stateful ==
    LET kept(result) ==
            [color |-> VecAdd(result.color, << Len(shading.log), 0, 0 >>),
             reflection |-> result.reflection, gi_rays |-> result.gi_rays,
             pixel |-> ToDrawColor(result.color)]
    IN  /\ shading.pc = "ready"
        /\ Len(shading.log) < MaxCalls
        /\ shading' = [shading EXCEPT !.log =
              Append(@, kept(shade(shading.mat, shading.hit, shading.depth)))]
        /\ UNCHANGED << world_vars, caller_vars, frame_vars, draw_vars, mesh,
                        loader, ray >>

\* A call of shade on a material with a Hit and a depth, as a worker of
\* draw makes it: the result is kept, with the draw::Color that
\* target.set receives for it.
ShadeCall ==
    LET kept(result) ==
            [color |-> result.color, reflection |-> result.reflection,
             gi_rays |-> result.gi_rays, pixel |-> ToDrawColor(result.color)]
    IN  /\ shading.pc = "ready"
        /\ Len(shading.log) < MaxCalls
        /\ shading' = [shading EXCEPT !.log =
              Append(@, kept(shade(shading.mat, shading.hit, shading.depth)))]
        /\ UNCHANGED << world_vars, caller_vars, frame_vars, draw_vars, mesh,
                        loader, ray >>

(***************************************************************************)
(* World::draw                                                             *)
(***************************************************************************)
\* tan(fov / 2) as a fraction << numerator, denominator >>.
HalfFovTan(angle) ==
    CASE angle = 80 -> << 5, 6 >>
      [] angle = 90 -> << 1, 1 >>

\* World::rotation_matrix
rotation_matrix(pitch, yaw) == MatMul(RotationPitch(pitch), RotationYaw(yaw))

\* The direction of the primary ray of pixel (x, y), before the rotation:
\* (ndc_x * half_fov_tan, ndc_y * half_fov_tan, 1), where ndc_x is
\* (2x + 1 - width) / height and ndc_y is (height - 2y - 1) / height, kept as
\* the positive multiple by height * denominator, which is a vector of
\* integers, in place of the unit vector.
ForwardRayDir(x, y, width, height, angle) ==
    << HalfFovTan(angle)[1] * (2 * x + 1 - width),
       HalfFovTan(angle)[1] * (height - 2 * y - 1),
       HalfFovTan(angle)[2] * height >>

\* ray_dir of pixel (x, y)
RayDir(x, y, width, height) ==
    VecMul(ForwardRayDir(x, y, width, height, fov),
           rotation_matrix(camera_pitch, camera_yaw))

\* Variant of Skip that leaves the counter out of the parity.
Skip_NoCounter(x, y, counter) == checkerboard /\ (x + y) % 2 = 0

\* The test that makes a worker skip a pixel.
Skip(x, y, counter) == checkerboard /\ (x + y + counter) % 2 = 0

\* Variant of RowsPerThread that rounds down.
RowsPerThread_Floor(height, count) == height \div count

\* rows_per_thread
RowsPerThread(height, count) == (height + count - 1) \div count

\* y_start and y_end of worker number n (counted from 0)
YStart(n, rows) == n * rows

Min(a, b) == IF a < b THEN a ELSE b

\* Variant of YEnd without std::min.
YEnd_NoClamp(n, rows, height) == YStart(n, rows) + rows

YEnd(n, rows, height) == Min(height, YStart(n, rows) + rows)

\* Image::set: a write outside the image is dropped.
ImageSet(image, x, y, color) ==
    IF x >= 0 /\ x < image.w /\ y >= 0 /\ y < image.h
    THEN [image EXCEPT !.data[x + y * image.w + 1] = color]
    ELSE image

\* Image::get
ImageGet(image, x, y) ==
    IF x >= 0 /\ x < image.w /\ y >= 0 /\ y < image.h
    THEN image.data[x + y * image.w + 1]
    ELSE CLEAR

\* blend::binary
BlendBinary(top, bottom) == IF top.a = 255 THEN top ELSE bottom

\* target | draw::pixel(x, y, color)
DrawPixel(image, x, y, color) ==
    ImageSet(image, x, y, BlendBinary(color, ImageGet(image, x, y)))

\* f with the count of p raised by one.
Bump(f, p) ==
    IF p \in DOMAIN f
    THEN [f EXCEPT ![p] = @ + 1]
    ELSE [q \in DOMAIN f \cup {p} |-> IF q = p THEN 1 ELSE f[q]]

Count(f, p) == IF p \in DOMAIN f THEN f[p] ELSE 0

NoCounts == [q \in {} |-> 0]

\* World::draw up to the loop that starts the workers.
DrawBegin ==
    /\ main_pc = "draw"
    /\ hardware_concurrency # 0
    /\ thread_count' = hardware_concurrency
    /\ rows_per_thread' = RowsPerThread(target.h, hardware_concurrency)
    /\ t' = 0
    /\ threads' = << >>
    /\ target_before' = target.data
    /\ visits' = NoCounts
    /\ casts' = NoCounts
    /\ sets' = NoCounts
    /\ main_pc' = "spawn"
    /\ UNCHANGED << world_vars, caller_vars, hardware_concurrency,
                    poll_counter, frame, target, history, asset_vars >>

\* What the build makes of the unsigned division by zero in
\* rows_per_thread, which is undefined: a trap that ends the process, or a
\* quotient of 0.
DivideByZeroOutcomes == { "trap", "zero" }

\* World::draw up to the loop that starts the workers, when
\* hardware_concurrency returns 0.
DrawDivideByZero ==
    /\ main_pc = "draw"
    /\ hardware_concurrency = 0
    /\ thread_count' = 0
    /\ \E outcome \in DivideByZeroOutcomes :
          /\ main_pc' = (IF outcome = "trap" THEN "fault" ELSE "spawn")
          /\ rows_per_thread' = 0
    /\ t' = 0
    /\ threads' = << >>
    /\ target_before' = target.data
    /\ visits' = NoCounts
    /\ casts' = NoCounts
    /\ sets' = NoCounts
    /\ UNCHANGED << world_vars, caller_vars, hardware_concurrency,
                    poll_counter, frame, target, history, asset_vars >>

\* One iteration of the loop that starts the workers: threads.emplace_back.
DrawSpawn ==
    /\ main_pc = "spawn"
    /\ t < thread_count
    /\ threads' =
          Append(threads,
                 [y_start |-> YStart(t, rows_per_thread),
                  y_end |-> YEnd(t, rows_per_thread, target.h),
                  x |-> 0,
                  y |-> YStart(t, rows_per_thread)])
    /\ t' = t + 1
    /\ UNCHANGED << world_vars, caller_vars, frame_vars, thread_count,
                    rows_per_thread, target_before, visits, casts, sets,
                    history, asset_vars >>

\* A worker has left its row loop.
Finished(th) == ~(th.y < th.y_end)

\* Variant of Advance that leaves a row after its first pixel.
Advance_RowOnly(th, width) == [th EXCEPT !.x = 0, !.y = th.y + 1]

\* The worker's position after one iteration of the pixel loop.
Advance(th, width) ==
    IF th.x + 1 < width
    THEN [th EXCEPT !.x = th.x + 1]
    ELSE [th EXCEPT !.x = 0, !.y = th.y + 1]

\* Variant of WorkerStep that writes the background colour when the primary
\* ray misses.
WorkerStep_WriteOnMiss(i) ==
    LET th == threads[i]
        hit == cast_ray(object_data, camera_position,
                        RayDir(th.x, th.y, target.w, target.h))
    IN  /\ ~Finished(th)
        /\ visits' = Bump(visits, << th.x, th.y >>)
        /\ IF Skip(th.x, th.y, poll_counter)
           THEN UNCHANGED << casts, sets, target >>
           ELSE /\ casts' = Bump(casts, << th.x, th.y >>)
                /\ target' =
                      DrawPixel(target, th.x, th.y,
                          ToDrawColor(IF hit.some
                                      THEN shade(material(hit.material_index),
                                                 hit, 0).color
                                      ELSE background_color))
                /\ sets' = Bump(sets, << th.x, th.y >>)
        /\ threads' = [threads EXCEPT ![i] = Advance(th, target.w)]
        /\ UNCHANGED << world_vars, caller_vars, hardware_concurrency,
                        poll_counter, frame, main_pc, thread_count,
                        rows_per_thread, t, target_before, history,
                        asset_vars >>

\* One iteration of the pixel loop of worker i.
WorkerStep(i) ==
    LET th == threads[i]
        hit == cast_ray(object_data, camera_position,
                        RayDir(th.x, th.y, target.w, target.h))
    IN  /\ ~Finished(th)
        /\ visits' = Bump(visits, << th.x, th.y >>)
        /\ IF Skip(th.x, th.y, poll_counter)
           THEN UNCHANGED << casts, sets, target >>
           ELSE /\ casts' = Bump(casts, << th.x, th.y >>)
                /\ IF hit.some
                   THEN /\ target' =
                              DrawPixel(target, th.x, th.y,
                                  ToDrawColor(shade(material(hit.material_index),
                                                    hit, 0).color))
                        /\ sets' = Bump(sets, << th.x, th.y >>)
                   ELSE UNCHANGED << sets, target >>
        /\ threads' = [threads EXCEPT ![i] = Advance(th, target.w)]
        /\ UNCHANGED << world_vars, caller_vars, hardware_concurrency,
                        poll_counter, frame, main_pc, thread_count,
                        rows_per_thread, t, target_before, history,
                        asset_vars >>

Worker == \E i \in 1..Len(threads) : WorkerStep(i)

\* The set of pixels a count is kept for.
Counted(f) == { p \in DOMAIN f : f[p] > 0 }

\* Variant of DrawReturn that does not wait for the workers.
DrawReturn_NoJoin ==
    /\ main_pc = "spawn"
    /\ ~(t < thread_count)
    /\ history' =
          Append(history,
                 [counter |-> poll_counter,
                  checkerboard |-> checkerboard,
                  casts |-> Counted(casts),
                  sets |-> Counted(sets)])
    /\ frame' = frame + 1
    /\ main_pc' = "sync"
    /\ UNCHANGED << world_vars, caller_vars, hardware_concurrency,
                    poll_counter, target, thread_count, rows_per_thread, t,
                    threads, target_before, visits, casts, sets, asset_vars >>

\* World::draw returns: the loop that starts the workers has ended and the
\* destructor of the vector of std::jthread has joined every worker.
DrawReturn ==
    /\ main_pc = "spawn"
    /\ ~(t < thread_count)
    /\ \A i \in 1..Len(threads) : Finished(threads[i])
    /\ history' =
          Append(history,
                 [counter |-> poll_counter,
                  checkerboard |-> checkerboard,
                  casts |-> Counted(casts),
                  sets |-> Counted(sets)])
    /\ frame' = frame + 1
    /\ main_pc' = "sync"
    /\ UNCHANGED << world_vars, caller_vars, hardware_concurrency,
                    poll_counter, target, thread_count, rows_per_thread, t,
                    threads, target_before, visits, casts, sets, asset_vars >>

(***************************************************************************)
(* The frame loop of rt::run: rate.sync runs poll and update or skips      *)
(* them, then the frame is drawn.                                          *)
(***************************************************************************)
\* The keys RayTracer::update is given here: I toggles the checkerboard, W
\* moves the camera forward.
KeyInputs == { {}, {"I"}, {"W"}, {"I", "W"} }

\* Variant of SyncUpdate that does not wait for draw to return.
SyncUpdate_DuringDraw(keys) ==
    /\ frame < MaxFrames
    /\ poll_counter' = poll_counter + 1
    /\ checkerboard' = IF "I" \in keys THEN ~checkerboard ELSE checkerboard
    /\ camera_position' =
          IF "W" \in keys
          THEN Moved(camera_position, camera_yaw, << 0, 0, 1 >>)
          ELSE camera_position
    /\ UNCHANGED << object_data, material_data, light_data, camera_pitch,
                    camera_yaw, camera_roll, background_color, fov, shadows,
                    bsdf_mode, gi_mode, caller_vars, hardware_concurrency,
                    frame, target, main_pc, draw_vars, asset_vars >>

\* ManagedSdlInput::poll followed by RayTracer::update.
SyncUpdate(keys) ==
    /\ main_pc = "sync"
    /\ frame < MaxFrames
    /\ poll_counter' = poll_counter + 1
    /\ checkerboard' = IF "I" \in keys THEN ~checkerboard ELSE checkerboard
    /\ camera_position' =
          IF "W" \in keys
          THEN Moved(camera_position, camera_yaw, << 0, 0, 1 >>)
          ELSE camera_position
    /\ main_pc' = "draw"
    /\ UNCHANGED << object_data, material_data, light_data, camera_pitch,
                    camera_yaw, camera_roll, background_color, fov, shadows,
                    bsdf_mode, gi_mode, caller_vars, hardware_concurrency,
                    frame, target, draw_vars, asset_vars >>

Update == \E keys \in KeyInputs : SyncUpdate(keys)

\* rate.sync does not run its callable this frame.
SyncSkip ==
    /\ main_pc = "sync"
    /\ frame < MaxFrames
    /\ main_pc' = "draw"
    /\ UNCHANGED << world_vars, caller_vars, hardware_concurrency,
                    poll_counter, frame, target, draw_vars, asset_vars >>

\* The frame loop before its first frame, with no draw call made.
FrameIdle ==
    /\ poll_counter = 0
    /\ frame = 0
    /\ main_pc = "sync"
    /\ thread_count = 0
    /\ rows_per_thread = 0
    /\ t = 0
    /\ threads = << >>
    /\ visits = NoCounts
    /\ casts = NoCounts
    /\ sets = NoCounts
    /\ history = << >>

\* No compute_bvh, load_mesh, shade or cast_ray call has been made.
AssetIdle ==
    /\ mesh = [pc |-> "idle"]
    /\ loader = [pc |-> "idle"]
    /\ shading = [pc |-> "idle"]
    /\ ray = [pc |-> "idle"]

\* draw::Image(width, height): every pixel is CLEAR.
Image(width, height) ==
    [w |-> width, h |-> height, data |-> [k \in 1..(width * height) |-> CLEAR]]

(***************************************************************************)
(* Spec: a caller makes up to MaxOps calls of the World API on a freshly   *)
(* constructed World.                                                      *)
(***************************************************************************)
CallerInit ==
    /\ ops = 0
    /\ refs = << >>
    /\ bsdf_cycles = 0
    /\ gi_cycles = 0

\* In Spec and CycleSpec the frame loop does not run.
NoFrameLoop ==
    /\ FrameIdle
    /\ AssetIdle
    /\ hardware_concurrency = 1
    /\ target = Image(0, 0)
    /\ target_before = target.data

Init == WorldInit /\ CallerInit /\ NoFrameLoop

AddObject == \E object \in ShapeInputs, mat \in MaterialInputs : add(object, mat)

AddDefault == \E object \in ShapeInputs : add_default(object)

AddLight == \E light \in LightInputs : add_light(light)

Move == \E vector \in MoveInputs : move(vector)

RotatePitch == \E angle \in AngleInputs : rotate_pitch(angle)

RotateYaw == \E angle \in AngleInputs : rotate_yaw(angle)

RotateRoll == \E angle \in AngleInputs : rotate_roll(angle)

SetFov == \E angle \in FovInputs : set_fov(angle)

SetCheckerboard == \E value \in BOOLEAN : set_checkerboard(value)

SetShadows == \E value \in BOOLEAN : set_shadows(value)

SetBsdfMode == \E value \in Range(Mode) : set_bsdf_mode(value)

SetGiMode == \E value \in Range(GiMode) : set_gi_mode(value)

\* One more call, within the bound of the run.
Budget ==
    /\ ops < MaxOps
    /\ ops' = ops + 1
    /\ UNCHANGED << frame_vars, draw_vars, asset_vars >>

Next ==
    \/ Budget /\ AddObject
    \/ Budget /\ AddDefault
    \/ Budget /\ AddLight
    \/ Budget /\ Move
    \/ Budget /\ RotatePitch
    \/ Budget /\ RotateYaw
    \/ Budget /\ RotateRoll
    \/ Budget /\ SetFov
    \/ Budget /\ SetCheckerboard
    \/ Budget /\ SetShadows
    \/ Budget /\ SetBsdfMode
    \/ Budget /\ SetGiMode
    \/ Budget /\ cycle_bsdf_mode
    \/ Budget /\ cycle_gi_mode

Spec == Init /\ [][Next]_vars

(***************************************************************************)
(* raytracer::Mesh: the BVH build.  A vertex is a vector of integers; the  *)
(* centroid test c[axis] < split, with c the sum of three vertices over 3  *)
(* and split half the sum of two bounds, is decided on the integers        *)
(* 2 * sum and 3 * (min + max).                                            *)
(***************************************************************************)
\* INF of compute_bounds, larger than every coordinate of the model.
INF == 1000000

\* leaf_size of build_bvh.
LeafSize == 4

\* The least and the greatest element of a set of integers.
SetMin(S) == CHOOSE x \in S : \A y \in S : x <= y

SetMax(S) == CHOOSE x \in S : \A y \in S : x >= y

\* Variant of compute_bounds that looks at the first vertex of each face
\* only.
compute_bounds_FirstVertex(vertices, faces) ==
    LET along(a) == { vertices[faces[k][1] + 1][a] : k \in 1..Len(faces) }
    IN  [min |-> [a \in 1..3 |-> SetMin(along(a) \cup { INF })],
         max |-> [a \in 1..3 |-> SetMax(along(a) \cup { 0 - INF })]]

\* Mesh::compute_bounds: out_min and out_max over every vertex of every
\* face.
compute_bounds(vertices, faces) ==
    LET along(a) == { vertices[faces[k][c] + 1][a] :
                         k \in 1..Len(faces), c \in 1..3 }
    IN  [min |-> [a \in 1..3 |-> SetMin(along(a) \cup { INF })],
         max |-> [a \in 1..3 |-> SetMax(along(a) \cup { 0 - INF })]]

\* s with the elements at positions i and j exchanged (std::swap).
Swap(s, i, j) == [s EXCEPT ![i] = s[j], ![j] = s[i]]

RECURSIVE PartitionLoop(_, _, _, _, _, _)
\* The loop of Mesh::partition_faces from i and j (positions counted from
\* 0): the reordered faces and the i it returns.  split2 is twice the
\* split.
PartitionLoop(vertices, faces, i, j, axis, split2) ==
    LET f == faces[i + 1]
        sum == vertices[f[1] + 1][axis] + vertices[f[2] + 1][axis]
                  + vertices[f[3] + 1][axis]
    IN  IF ~(i < j)
        THEN [faces |-> faces, mid |-> i]
        ELSE IF 2 * sum < 3 * split2
             THEN PartitionLoop(vertices, faces, i + 1, j, axis, split2)
             ELSE PartitionLoop(vertices, Swap(faces, i + 1, j), i, j - 1,
                                axis, split2)

\* Mesh::partition_faces
partition_faces(vertices, faces, axis, split2) ==
    PartitionLoop(vertices, faces, 0, Len(faces), axis, split2)

\* The axis build_bvh splits along: the one with the largest extent, the
\* first of them when several are largest.
SplitAxis(bound_min, bound_max) ==
    LET extent == [a \in 1..3 |-> bound_max[a] - bound_min[a]]
        first == IF extent[2] > extent[1] THEN 2 ELSE 1
    IN  IF extent[3] > extent[first] THEN 3 ELSE first

\* Variant of ChildCalls whose right span starts one face early.
ChildCalls_Overlap(call, mid, id) ==
    << [offset |-> call.offset, count |-> mid, parent |-> id, side |-> "left"],
       [offset |-> call.offset + mid - 1, count |-> call.count - mid + 1,
        parent |-> id, side |-> "right"] >>

\* Variant of ChildCalls that makes the left child only.
ChildCalls_LeftOnly(call, mid, id) ==
    << [offset |-> call.offset, count |-> mid, parent |-> id, side |-> "left"] >>

\* The two recursive build_bvh calls of node id: faces.first(mid) at
\* face_offset, then faces.last(size - mid) at face_offset + mid.
ChildCalls(call, mid, id) ==
    << [offset |-> call.offset, count |-> mid, parent |-> id, side |-> "left"],
       [offset |-> call.offset + mid, count |-> call.count - mid,
        parent |-> id, side |-> "right"] >>

\* faces with the span of count positions after offset replaced by span.
WithSpan(faces, offset, span) ==
    [k \in 1..Len(faces) |->
        IF k > offset /\ k <= offset + Len(span) THEN span[k - offset] ELSE faces[k]]

\* Mesh::compute_bvh up to the call of build_bvh.
ComputeBvh ==
    /\ mesh.pc = "loaded"
    /\ mesh' = [mesh EXCEPT
                   !.pc = IF mesh.faces = << >> THEN "done" ELSE "build",
                   !.nodes = << >>,
                   !.stack = IF mesh.faces = << >>
                             THEN << >>
                             ELSE << [offset |-> 0, count |-> Len(mesh.faces),
                                      parent |-> 0, side |-> "root"] >>]
    /\ UNCHANGED << world_vars, caller_vars, frame_vars, draw_vars, loader,
                    shading, ray >>

\* One call of Mesh::build_bvh, up to its recursive calls: the node is
\* made and linked to its parent, its span is partitioned in place, and
\* the calls for its children are the next to run, the left one first.
BuildBvh ==
    /\ mesh.pc = "build"
    /\ LET call == Head(mesh.stack)
           id == Len(mesh.nodes) + 1
           span == SubSeq(mesh.faces, call.offset + 1, call.offset + call.count)
           bounds == compute_bounds(mesh.vertices, span)
           axis == SplitAxis(bounds.min, bounds.max)
           parted == partition_faces(mesh.vertices, span, axis,
                                     bounds.min[axis] + bounds.max[axis])
           split == call.count > LeafSize
           inner == split /\ parted.mid # 0 /\ parted.mid # call.count
           node == [bound_min |-> bounds.min, bound_max |-> bounds.max,
                    face_index |-> call.offset, face_count |-> call.count,
                    left |-> 0, right |-> 0]
           linked == IF call.side = "left"
                     THEN [mesh.nodes EXCEPT ![call.parent].left = id]
                     ELSE IF call.side = "right"
                          THEN [mesh.nodes EXCEPT ![call.parent].right = id]
                          ELSE mesh.nodes
           stack == IF inner
                    THEN ChildCalls(call, parted.mid, id) \o Tail(mesh.stack)
                    ELSE Tail(mesh.stack)
       IN  mesh' = [mesh EXCEPT
                      !.nodes = Append(linked, node),
                      !.faces = IF split
                                THEN WithSpan(mesh.faces, call.offset, parted.faces)
                                ELSE mesh.faces,
                      !.stack = stack,
                      !.pc = IF stack = << >> THEN "done" ELSE "build"]
    /\ UNCHANGED << world_vars, caller_vars, frame_vars, draw_vars, loader,
                    shading, ray >>

\* The vertices of the meshes built here: a triangle at the origin, one at
\* x = 4, one at z = 9.
MeshVertices ==
    << << 0, 0, 0 >>, << 1, 0, 0 >>, << 0, 1, 0 >>,
       << 4, 0, 0 >>, << 5, 0, 0 >>, << 4, 1, 0 >>,
       << 0, 0, 9 >>, << 1, 0, 9 >>, << 0, 1, 9 >> >>

\* The faces of the meshes built here, as vertex positions counted from 0:
\* the three triangles and one that spans the first two.
FaceInputs == { << 0, 1, 2 >>, << 3, 4, 5 >>, << 6, 7, 8 >>, << 1, 3, 2 >> }

(***************************************************************************)
(* raytracer::load_mesh.  The file is a sequence of lines, a line the      *)
(* sequence of its components between spaces, a component a sequence of    *)
(* characters.  The characters here are digits, '-', '/' and letters, so a *)
(* number is an optional '-' and digits, and std::stof and std::stoul      *)
(* convert the longest prefix that is one.                                 *)
(***************************************************************************)
\* The modulus of unsigned long arithmetic, kept at 30 bits.
UlongModulus == 1073741824

DigitChars == << "0", "1", "2", "3", "4", "5", "6", "7", "8", "9" >>

RECURSIVE DigitsPrefix(_, _, _)
\* The value of the digits of token from position k on, and the position
\* of the first character after them.
DigitsPrefix(token, k, acc) ==
    IF k <= Len(token) /\ \E i \in 1..10 : DigitChars[i] = token[k]
    THEN DigitsPrefix(token, k + 1,
                      acc * 10 + (CHOOSE i \in 1..10 : DigitChars[i] = token[k]) - 1)
    ELSE [value |-> acc, end |-> k]

\* What strtod / strtoul make of the start of token: whether a number
\* starts it, its sign and magnitude, and whether it is all of token.
NumberPrefix(token) ==
    LET negative == token # << >> /\ token[1] = "-"
        start == IF negative THEN 2 ELSE 1
        digits == DigitsPrefix(token, start, 0)
    IN  [ok |-> digits.end > start, negative |-> negative,
         value |-> digits.value, whole |-> digits.end = Len(token) + 1]

\* std::stof: the number that starts the token; it throws when none does.
stof(token) ==
    [ok |-> NumberPrefix(token).ok,
     value |-> IF NumberPrefix(token).negative
               THEN 0 - NumberPrefix(token).value
               ELSE NumberPrefix(token).value]

\* std::stoul: the number that starts the token, negated in unsigned
\* arithmetic after a '-'; it throws when no number starts the token.
stoul(token) ==
    [ok |-> NumberPrefix(token).ok,
     value |-> IF NumberPrefix(token).negative
               THEN (UlongModulus - NumberPrefix(token).value) % UlongModulus
               ELSE NumberPrefix(token).value]

\* The orders in which a build may evaluate the three arguments of
\* emplace_back, each of which calls next(): the positions of the
\* components that become x, y and z.
ArgumentOrders == { << 2, 3, 4 >>, << 4, 3, 2 >> }

\* What one line does to the Mesh being loaded: "vertex", "face",
\* "shading", "none" for a line that is ignored, or "error" when
\* next().value() or a conversion throws.
LineEffect(line) ==
    LET id == IF line = << >> THEN << >> ELSE line[1]
        needs == IF id = << "v" >> \/ id = << "f" >> THEN 2..4
                 ELSE IF id = << "s" >> THEN {2} ELSE {}
        \* next() has a value and the conversion of it does not throw
        ok(k) == /\ k <= Len(line)
                 /\ IF id = << "v" >> THEN stof(line[k]).ok ELSE stoul(line[k]).ok
    IN  IF \E k \in needs : ~ok(k) THEN "error"
        ELSE IF id = << "v" >> THEN "vertex"
        ELSE IF id = << "f" >> THEN "face"
        ELSE IF id = << "s" >> THEN "shading"
        ELSE "none"

\* One iteration of the loop over the lines of load_mesh.
LoadLine ==
    /\ loader.pc = "reading"
    /\ loader.lines # << >>
    /\ LET line == Head(loader.lines)
           effect == LineEffect(line)
           index(k) == (stoul(line[k]).value + UlongModulus - 1) % UlongModulus
       IN  loader' = [loader EXCEPT
              !.pc = IF effect = "error" THEN "error" ELSE "reading",
              !.lines = Tail(loader.lines),
              !.log = Append(loader.log, [line |-> line, effect |-> effect]),
              !.vertices =
                  IF effect = "vertex"
                  THEN Append(loader.vertices,
                              << stof(line[loader.order[1]]).value,
                                 stof(line[loader.order[2]]).value,
                                 stof(line[loader.order[3]]).value >>)
                  ELSE loader.vertices,
              !.faces =
                  IF effect = "face"
                  THEN Append(loader.faces, << index(2), index(3), index(4) >>)
                  ELSE loader.faces,
              !.shading =
                  IF effect = "shading"
                  THEN (IF stoul(line[2]).value # 0 THEN "Smooth" ELSE "Flat")
                  ELSE loader.shading]
    /\ UNCHANGED << world_vars, caller_vars, frame_vars, draw_vars, mesh,
                    shading, ray >>

\* What a read of a vertex past the end of vertices may return.
GarbageInputs == { << 0, 0, 0 >>, << 7, 7, 7 >> }

\* The vertices as compute_bvh reads them: position p holds vertices[p - 1]
\* of the program, and a position past the end, which no check keeps a
\* face from naming, holds whatever the memory there holds.
Memory(vertices, faces, garbage) ==
    [p \in (1..Len(vertices)) \cup { faces[k][c] + 1 : k \in 1..Len(faces), c \in 1..3 } |->
        IF p <= Len(vertices) THEN vertices[p] ELSE garbage]

\* The end of the loop over the lines: load_mesh calls mesh.compute_bvh(),
\* and returns the mesh once that is done.
LoadFinish ==
    /\ loader.pc = "reading"
    /\ loader.lines = << >>
    /\ loader' = [loader EXCEPT !.pc = "done"]
    /\ \E garbage \in GarbageInputs :
          mesh' = [pc |-> "loaded",
                   vertices |-> Memory(loader.vertices, loader.faces, garbage),
                   faces |-> loader.faces, nodes |-> << >>, stack |-> << >>]
    /\ UNCHANGED << world_vars, caller_vars, frame_vars, draw_vars, shading,
                    ray >>

\* The lines of the OBJ files loaded here.
LineInputs ==
    { << >>,
      << << "#" >>, << "x" >> >>,
      << << "v", "n" >>, << "x" >>, << "1" >>, << "2" >> >>,
      << << "v" >>, << "1" >>, << "2" >>, << "3" >> >>,
      << << "v" >>, << "1" >>, << "2" >> >>,
      << << "v" >>, << "1", "x" >>, << "2" >>, << "3" >> >>,
      << << "v" >>, << "x" >>, << "2" >>, << "3" >> >>,
      << << "f" >>, << "1" >>, << "1" >>, << "1" >> >>,
      << << "f" >>, << "1" >>, << >>, << "1" >> >>,
      << << "f" >>, << "1", "/", "1", "/", "1" >>, << "1", "/", "1", "/", "1" >>,
         << "1", "/", "1", "/", "1" >> >>,
      << << "f" >>, << "-", "1" >>, << "-", "1" >>, << "-", "1" >> >>,
      << << "s" >>, << "1" >> >>,
      << << "s" >>, << "o", "f", "f" >> >> }

(***************************************************************************)
(* Scenes: the World a sequence of add calls builds.                       *)
(***************************************************************************)
RECURSIVE AddAll(_, _, _, _)
\* The objects, materials and Refs a World holds after add(shape, material)
\* for every pair of the sequence, in order.
AddAll(pairs, objects, materials, returned) ==
    IF pairs = << >>
    THEN [object_data |-> objects, material_data |-> materials, refs |-> returned]
    ELSE AddAll(Tail(pairs),
                Append(objects,
                       [shape |-> Head(pairs)[1],
                        material |-> AddMaterialIndex(materials, Head(pairs)[2])]),
                AddMaterialData(materials, Head(pairs)[2]),
                Append(returned, [index |-> Len(objects),
                                  kind |-> Head(pairs)[1].kind,
                                  mat |-> Head(pairs)[2]]))

Red == << 1000, 0, 0 >>

\* The add calls that build each scene.
SceneInputs ==
    { << >>,
      << << Sphere(<< 0, 0, 5 >>, 1), SolidColorMaterial(Red) >> >>,
      << << Plane(<< 0, -1, 0 >>, << 0, 1, 0 >>), DefaultMaterial >>,
         << Sphere(<< 0, 0, 5 >>, 1), SolidColorMaterial(Red) >> >> }

\* The World after construction and the add calls of a scene.
SceneInit(scene) ==
    /\ object_data = AddAll(scene, << >>, << DefaultMaterial >>, << >>).object_data
    /\ material_data = AddAll(scene, << >>, << DefaultMaterial >>, << >>).material_data
    /\ refs = AddAll(scene, << >>, << DefaultMaterial >>, << >>).refs
    /\ light_data = << >>
    /\ camera_position = << 0, 0, 0 >>
    /\ camera_pitch = 0
    /\ camera_yaw = 0
    /\ camera_roll = 0
    /\ background_color = FromDrawColor(BLACK)
    /\ checkerboard = TRUE
    /\ shadows = TRUE
    /\ bsdf_mode = "Default"
    /\ gi_mode = "None"
    /\ ops = Len(scene)
    /\ bsdf_cycles = 0
    /\ gi_cycles = 0

(***************************************************************************)
(* CycleSpec: only the two cycle operations, on a World whose modes have   *)
(* not been touched since construction.                                    *)
(***************************************************************************)
CycleInit ==
    /\ \E scene \in SceneInputs : SceneInit(scene)
    /\ fov \in FovInputs
    /\ NoFrameLoop

CycleBsdf ==
    /\ bsdf_cycles < MaxCycles
    /\ cycle_bsdf_mode
    /\ UNCHANGED << ops, frame_vars, draw_vars, asset_vars >>

CycleGi ==
    /\ gi_cycles < MaxCycles
    /\ cycle_gi_mode
    /\ UNCHANGED << ops, frame_vars, draw_vars, asset_vars >>

CycleNext == CycleBsdf \/ CycleGi

CycleSpec == CycleInit /\ [][CycleNext]_vars

(***************************************************************************)
(* DrawSpec: the frame loop on a scene built by World::add, drawing into   *)
(* an image of any size up to MaxWidth x MaxHeight with up to MaxThreads   *)
(* workers.                                                                *)
(***************************************************************************)
\* The frame loop about to draw its first frame, on a machine whose
\* hardware concurrency is one of counts.
DrawInitWith(counts) ==
    /\ \E scene \in SceneInputs : SceneInit(scene)
    /\ fov = 80
    /\ FrameIdle
    /\ AssetIdle
    /\ hardware_concurrency \in counts
    /\ \E width \in 1..MaxWidth, height \in 0..MaxHeight :
          target = Image(width, height)
    /\ target_before = target.data

DrawInit == DrawInitWith(1..MaxThreads)

DrawNext ==
    \/ Update
    \/ SyncSkip
    \/ DrawBegin
    \/ DrawSpawn
    \/ Worker
    \/ DrawReturn

DrawSpec == DrawInit /\ [][DrawNext]_vars

(***************************************************************************)
(* FairDrawSpec: DrawSpec in which the main thread takes its next step of  *)
(* draw when it can and every worker that is started and has pixels left   *)
(* is eventually scheduled.                                                *)
(***************************************************************************)
\* Worker i runs one iteration of its pixel loop, seen as the move of its
\* position.  WorkerStep(i) is the only step of DrawNext that moves the
\* position of a started worker, and it can be taken exactly when the
\* worker has a pixel left, so fairness on this action is fairness on
\* WorkerStep(i).
WorkerScheduled(i) ==
    /\ i <= Len(threads)
    /\ ~Finished(threads[i])
    /\ threads' = [threads EXCEPT ![i] = Advance(threads[i], target.w)]

FairDrawSpec ==
    /\ DrawSpec
    /\ WF_vars(DrawBegin)
    /\ WF_vars(DrawSpawn)
    /\ WF_vars(DrawReturn)
    /\ \A i \in 1..MaxThreads : WF_threads(WorkerScheduled(i))

(***************************************************************************)
(* BvhSpec: compute_bvh on a Mesh of up to MaxFaces faces.                 *)
(***************************************************************************)
BvhInit ==
    /\ WorldInit
    /\ CallerInit
    /\ FrameIdle
    /\ hardware_concurrency = 1
    /\ target = Image(0, 0)
    /\ target_before = target.data
    /\ loader = [pc |-> "idle"]
    /\ shading = [pc |-> "idle"]
    /\ ray = [pc |-> "idle"]
    /\ \E n \in 0..MaxFaces :
          \E faces \in [1..n -> FaceInputs] :
             mesh = [pc |-> "loaded", vertices |-> MeshVertices,
                     faces |-> faces, nodes |-> << >>, stack |-> << >>]

BvhNext == ComputeBvh \/ BuildBvh

BvhSpec == BvhInit /\ [][BvhNext]_vars

(***************************************************************************)
(* ShadeSpec: up to MaxCalls calls of shade with the same arguments on a   *)
(* World that does not change.  The material shaded is that of a floor     *)
(* through the origin, the Hit is on the floor, and the other objects and  *)
(* the lights are above it.                                                *)
(***************************************************************************)
ShadeInit ==
    /\ FrameIdle
    /\ hardware_concurrency = 1
    /\ target = Image(0, 0)
    /\ target_before = target.data
    /\ mesh = [pc |-> "idle"]
    /\ loader = [pc |-> "idle"]
    /\ ray = [pc |-> "idle"]
    /\ camera_position = << 0, 20, -20 >>
    /\ camera_pitch = 0
    /\ camera_yaw = 0
    /\ camera_roll = 0
    /\ background_color = FromDrawColor(PICO_DARK_GRAY)
    /\ fov = 80
    /\ checkerboard = TRUE
    /\ bsdf_cycles = 0
    /\ gi_cycles = 0
    /\ shadows \in BOOLEAN
    /\ bsdf_mode \in Range(Mode)
    /\ gi_mode \in Range(GiMode)
    /\ \E mat \in { LambertMaterial(Gray, 1000), LambertMaterial(Gray, 400),
                     BsdfMaterial(Gray, << 0, 0, 0 >>, 1000, 0),
                     BsdfMaterial(Gray, << 100, 0, 0 >>, 500, 1000) },
          above \in { << >>,
                      << << Sphere(<< 0, 30, 0 >>, 10), SolidColorMaterial(Red) >> >>,
                      << << Sphere(<< 0, 30, 0 >>, 10),
                            BsdfMaterial(Red, << 0, 0, 0 >>, 1000, 0) >>,
                         << Sphere(<< 25, 10, 0 >>, 8),
                            LambertMaterial(Gray, 1000) >> >> },
          lights \in { << >>,
                       << PointLight(<< 0, 60, 0 >>, << 1000, 600, 450 >>) >>,
                       << PointLight(<< 0, 15, 0 >>, << 1000, 600, 450 >>) >>,
                       << PointLight(<< 0, 60, 0 >>, << 1000, 600, 450 >>),
                          PointLight(<< 40, 40, 0 >>, << 500, 500, 500 >>) >> },
          depth \in { 0, 1, 4 } :
          LET scene == << << Plane(<< 0, 0, 0 >>, << 0, 1, 0 >>), mat >> >> \o above
              world == AddAll(scene, << >>, << DefaultMaterial >>, << >>)
          IN  /\ object_data = world.object_data
              /\ material_data = world.material_data
              /\ refs = world.refs
              /\ ops = Len(scene) + Len(lights)
              /\ light_data = lights
              /\ shading = [pc |-> "ready", mat |-> mat,
                            hit |-> SomeHit(<< 0, 0, 0 >>, << 0, 1000, 0 >>, 283,
                                            world.object_data[1].material),
                            depth |-> depth, log |-> << >>]
              \* the global illumination pass is run on one setting of the
              \* other switches
              /\ gi_mode = "Simple" => shadows /\ bsdf_mode = "Default"

ShadeSpec == ShadeInit /\ [][ShadeCall]_vars

(***************************************************************************)
(* RaySpec: one cast_ray call on a World of spheres and planes to which a  *)
(* Mesh of up to MaxFaces faces is added once its BVH is built.  The       *)
(* spheres have radius 1 and their centres on the z axis, and the rays run *)
(* along an axis, so that every root is a whole number of thousandths.     *)
(***************************************************************************)
\* The faces of the Mesh, in the order of the file: the triangle at the
\* origin, the one at z = 9, the spanning one and the one at x = 4, over
\* and over.
RayFaces(n) ==
    [k \in 1..n |->
        << << 0, 1, 2 >>, << 6, 7, 8 >>, << 1, 3, 2 >>, << 3, 4, 5 >> >>[((k - 1) % 4) + 1]]

\* The add calls that build each World.
RayScenes ==
    { << >>,
      << << Sphere(<< 0, 0, 0 >>, 1), SolidColorMaterial(Red) >> >>,
      << << Sphere(<< 0, 0, 0 >>, 1), SolidColorMaterial(Red) >>,
         << Sphere(<< 0, 0, 0 >>, 1), SolidColorMaterial(Gray) >> >>,
      << << Sphere(<< 0, 0, 6 >>, 1), SolidColorMaterial(Red) >>,
         << Sphere(<< 0, 0, 0 >>, 1), SolidColorMaterial(Gray) >> >>,
      << << Plane(<< 0, 0, -1 >>, << 0, 0, -1 >>), DefaultMaterial >>,
         << Sphere(<< 0, 0, 0 >>, 1), SolidColorMaterial(Red) >> >>,
      << << Sphere(<< 0, 0, 1 >>, 1), SolidColorMaterial(Red) >>,
         << Plane(<< 0, 0, 0 >>, << 0, 0, 1 >>), SolidColorMaterial(Gray) >> >> }

\* The position and the scale main.cpp gives a Mesh between load_mesh and
\* add.
PlacementInputs ==
    { [position |-> << 0, 0, 0 >>, scale |-> 1],
      [position |-> << 0, 0, 1 >>, scale |-> 2] }

RayOrigins ==
    { << 0, 0, -5 >>, << 1, 0, -5 >>, << 2, 0, -5 >>, << 0, 0, 0 >>,
      << 0, 0, 5 >>, << 0, 0, 20 >>, << -5, 0, 0 >> }

RayDirections ==
    { << 0, 0, 1 >>, << 0, 0, -1 >>, << 0, 0, 2 >>, << 1, 0, 0 >> }

\* World::add(Mesh, Mat) of the Mesh whose BVH is built.
AddMesh ==
    /\ mesh.pc = "done"
    /\ add(Mesh(mesh.position, mesh.scale, mesh.vertices, mesh.faces,
                mesh.nodes),
           LambertMaterial(Gray, 1000))
    /\ ops' = ops + 1
    /\ mesh' = [mesh EXCEPT !.pc = "added"]
    /\ UNCHANGED << frame_vars, draw_vars, loader, shading, ray >>

\* World::cast_ray, with the traversal of each Mesh it visits.
CastRay ==
    /\ ray.pc = "ready"
    /\ mesh.pc \in { "idle", "added" }
    /\ ray' = [ray EXCEPT
                  !.pc = "done",
                  !.hit = cast_ray(object_data, ray.origin, ray.direction),
                  !.found =
                      [i \in 1..Len(object_data) |->
                          IF object_data[i].shape.kind = "Mesh"
                             /\ object_data[i].shape.nodes # << >>
                          THEN Traversal(object_data[i].shape, ray.origin,
                                         ray.direction)
                          ELSE [best_distance |-> FLT_MAX, best_hit |-> NoHit,
                                hit_any |-> FALSE, calls |-> << >>]]]
    /\ UNCHANGED << world_vars, caller_vars, frame_vars, draw_vars, mesh,
                    loader, shading >>

RayInit ==
    /\ FrameIdle
    /\ hardware_concurrency = 1
    /\ target = Image(0, 0)
    /\ target_before = target.data
    /\ loader = [pc |-> "idle"]
    /\ shading = [pc |-> "idle"]
    /\ fov = 80
    /\ \E scene \in RayScenes : SceneInit(scene)
    /\ \/ mesh = [pc |-> "idle"]
       \/ \E n \in 0..MaxFaces, placed \in PlacementInputs :
             mesh = [pc |-> "loaded", vertices |-> MeshVertices,
                     faces |-> RayFaces(n), nodes |-> << >>, stack |-> << >>,
                     position |-> placed.position, scale |-> placed.scale]
    /\ \E origin \in RayOrigins, direction \in RayDirections :
          ray = [pc |-> "ready", origin |-> origin, direction |-> direction,
                 hit |-> NoHit, found |-> << >>]

RayNext == ComputeBvh \/ BuildBvh \/ AddMesh \/ CastRay

RaySpec == RayInit /\ [][RayNext]_vars

(***************************************************************************)
(* LoadSpec: load_mesh on an OBJ file of up to MaxLines lines.             *)
(***************************************************************************)
LoadInit ==
    /\ WorldInit
    /\ CallerInit
    /\ FrameIdle
    /\ hardware_concurrency = 1
    /\ target = Image(0, 0)
    /\ target_before = target.data
    /\ mesh = [pc |-> "idle"]
    /\ shading = [pc |-> "idle"]
    /\ ray = [pc |-> "idle"]
    /\ \E n \in 0..MaxLines, order \in ArgumentOrders :
          \E lines \in [1..n -> LineInputs] :
             loader = [pc |-> "reading", lines |-> lines, order |-> order,
                       vertices |-> << >>, faces |-> << >>,
                       shading |-> "Flat", log |-> << >>]

LoadNext == LoadLine \/ LoadFinish \/ ComputeBvh \/ BuildBvh

LoadSpec == LoadInit /\ [][LoadNext]_vars

(***************************************************************************)
(* HardwareSpec: DrawSpec on machines where                                *)
(* std::thread::hardware_concurrency may also return 0, which the standard *)
(* allows when the value is not computable.                                *)
(***************************************************************************)
HardwareInit == DrawInitWith(0..MaxThreads)

HardwareNext == DrawNext \/ DrawDivideByZero

HardwareSpec == HardwareInit /\ [][HardwareNext]_vars

(***************************************************************************)
(* Properties of World::add.                                               *)
(***************************************************************************)
\* The material an add call bound its object to.
BoundIndex(k) == Deref(refs[k]).material

\* C1, the part that holds in every state: the default red Solid material
\* is at index 0, no two entries of the materials collection are
\* structurally equal, and two spheres added with Lambert((0.5, 0.5, 0.5),
\* 1.0) leave a collection of size 2 and both carry material_index = 1.
C1_Inv ==
    /\ Len(material_data) >= 1
    /\ material_data[1] = SolidColorMaterial(FromDrawColor(PICO_RED))
    /\ \A i, j \in 1..Len(material_data) :
          i # j => material_data[i] # material_data[j]
    /\ ( /\ Len(refs) = 2
         /\ \A k \in 1..2 : /\ refs[k].kind = "Sphere"
                            /\ refs[k].mat = LambertMaterial(Gray, 1000) )
       => /\ Len(material_data) = 2
          /\ material_data[2] = LambertMaterial(Gray, 1000)
          /\ object_data[1].material = 1
          /\ object_data[2].material = 1

\* C1, the part about one add call: when the material given is structurally
\* equal to a stored entry, the object is bound to that entry's index and
\* the collection does not grow.
C1_AddStep ==
    Len(refs') = Len(refs) + 1 =>
        \A i \in 1..Len(material_data) :
            material_data[i] = refs'[Len(refs')].mat =>
                /\ material_data' = material_data
                /\ object_data'[Len(object_data')].material = i - 1

\* C1: after any sequence of World.add calls on a fresh World the materials
\* collection holds the default red Solid at index 0 and never two
\* structurally equal entries; an add with a material structurally equal to
\* a stored entry binds the object to that entry and does not grow the
\* collection.
C1_MaterialsDeduplicated == []C1_Inv /\ [][C1_AddStep]_vars

\* C1 witness: the two Lambert spheres have been added, to one entry.
C1_Witness ==
    /\ Len(refs) = 2
    /\ \A k \in 1..2 : /\ refs[k].kind = "Sphere"
                       /\ refs[k].mat = LambertMaterial(Gray, 1000)
    /\ Len(material_data) = 2
    /\ BoundIndex(1) = 1
    /\ BoundIndex(2) = 1

\* Exactly two calls were made on the fresh World, both add(sphere, M) with
\* structurally equal materials.
TwoEqualAdds ==
    /\ ops = 2
    /\ Len(refs) = 2
    /\ refs[1].kind = "Sphere"
    /\ refs[2].kind = "Sphere"
    /\ refs[1].mat = refs[2].mat

\* C2 as stated: after add(sphere, M1); add(sphere, M2) with M1 == M2 the
\* materials collection has exactly one entry and both Refs resolve to the
\* same material index.
C2_Original ==
    TwoEqualAdds =>
        /\ Len(material_data) = 1
        /\ BoundIndex(1) = BoundIndex(2)

\* C2 as amended: after add(sphere, M1); add(sphere, M2) with M1 == M2 on a
\* fresh World the materials collection holds the default red Solid at
\* index 0 and exactly one entry equal to M1 (size 1 when M1 is that
\* default, size 2 otherwise), and both Refs resolve to objects with the
\* same material index; two add calls given equal materials always resolve
\* to the same material index.
C2_OneEntryPerMaterial ==
    /\ TwoEqualAdds =>
          /\ Len(material_data) = (IF refs[1].mat = DefaultMaterial THEN 1 ELSE 2)
          /\ Cardinality({ i \in 1..Len(material_data) :
                              material_data[i] = refs[1].mat }) = 1
          /\ BoundIndex(1) = BoundIndex(2)
    /\ \A k, n \in 1..Len(refs) :
          refs[k].mat = refs[n].mat => BoundIndex(k) = BoundIndex(n)

\* C2 witness: two spheres added with one non-default material share the
\* second entry of a collection of two.
C2_Witness ==
    /\ TwoEqualAdds
    /\ refs[1].mat # DefaultMaterial
    /\ Len(material_data) = 2
    /\ BoundIndex(1) = 1
    /\ BoundIndex(2) = 1

\* C3 as stated: add reuses an index only for a stored material of the same
\* kind with the same value in every field, and appends a new entry
\* otherwise; so every object is bound to an entry structurally equal to
\* the material it was added with.
C3_Original ==
    \A k \in 1..Len(refs) : material(BoundIndex(k)) = refs[k].mat

\* C4: every material_index stored on an object is smaller than the size of
\* the materials collection.
C4_MaterialIndexInRange ==
    \A k \in 1..Len(object_data) :
        /\ object_data[k].material >= 0
        /\ object_data[k].material < Len(material_data)

\* C4 witness: objects bound to the last of three materials, after a camera
\* or flag call.
C4_Witness ==
    /\ Len(object_data) = 2
    /\ Len(material_data) = 3
    /\ object_data[2].material = 2
    /\ ops = 3

\* old is a prefix of new.
IsPrefix(old, new) ==
    /\ Len(old) <= Len(new)
    /\ \A i \in 1..Len(old) : old[i] = new[i]

\* C5: no step removes, reorders or replaces an entry of the objects or
\* materials collections, so every returned Ref and every stored
\* material_index goes on referring to the same object and material.
C5_Step ==
    /\ IsPrefix(object_data, object_data')
    /\ IsPrefix(material_data, material_data')
    /\ \A k \in 1..Len(refs) :
          object_data'[refs[k].index + 1] = object_data[refs[k].index + 1]
    /\ \A k \in 1..Len(object_data) :
          material_data'[object_data[k].material + 1] =
             material_data[object_data[k].material + 1]

C5_AddOnlyAppends == [][C5_Step]_vars

\* C5 witness: a Ref returned by the first add, with two more add calls
\* made after it that each appended a material.
C5_Witness ==
    /\ Len(refs) = 3
    /\ Len(material_data) = 4
    /\ Deref(refs[1]).material = 1

(***************************************************************************)
(* Properties of the cycle operations.                                     *)
(***************************************************************************)
\* C6, the modes: after n cycle_bsdf_mode calls bsdf_mode is variant
\* n mod 6 of Mode, after n cycle_gi_mode calls gi_mode is variant n mod 2
\* of GiMode; with n = 0 these are Default and None.
C6_ModeInv ==
    /\ bsdf_mode = Mode[(bsdf_cycles % 6) + 1]
    /\ gi_mode = GiMode[(gi_cycles % 2) + 1]

\* C6, the rest of the World: a cycle call changes no other World state.
C6_Frame ==
    /\ UNCHANGED << object_data, material_data, light_data, camera_position,
                    camera_pitch, camera_yaw, camera_roll, background_color,
                    fov, checkerboard, shadows >>
    /\ bsdf_cycles' # bsdf_cycles => gi_mode' = gi_mode
    /\ gi_cycles' # gi_cycles => bsdf_mode' = bsdf_mode

\* C6: bsdf_mode starts at Default and gi_mode at None; each cycle call
\* moves to the next variant in declaration order and wraps after the last,
\* so n calls leave variant n mod 6 (n mod 2 for gi_mode); a cycle call
\* changes no other World state.
C6_CycleOrder == []C6_ModeInv /\ [][C6_Frame]_vars

\* C6 witness: both modes have wrapped, on a World that holds objects.
C6_Witness ==
    /\ bsdf_cycles = 8
    /\ bsdf_mode = "CookTorrance"
    /\ gi_cycles = 3
    /\ gi_mode = "Simple"
    /\ Len(object_data) = 2

\* C7 as stated: cycle_bsdf_mode called seven times starting from Default
\* ends at Default again.
C7_Original == bsdf_cycles = 7 => bsdf_mode = "Default"

\* C7 as amended: cycle_bsdf_mode called six times starting from Default
\* ends at Default again (six variants); the seventh call leaves Diffuse.
C7_SixCyclesReturn ==
    /\ bsdf_cycles = 6 => bsdf_mode = "Default"
    /\ bsdf_cycles = 7 => bsdf_mode = "Diffuse"

\* C7 witness: the sixth and then the seventh call have been made.
C7_Witness ==
    /\ bsdf_cycles = 7
    /\ bsdf_mode = "Diffuse"
    /\ gi_cycles = 0

(***************************************************************************)
(* Properties of World::draw.                                              *)
(***************************************************************************)
\* The pixels of the target.
Pixels == (0..(target.w - 1)) \X (0..(target.h - 1))

\* Frames n and n + 1 were both drawn with the checkerboard on, with input
\* counters that differ by 1.
Interlaced(n) ==
    /\ history[n].checkerboard
    /\ history[n + 1].checkerboard
    /\ history[n + 1].counter = history[n].counter + 1

\* C8 as stated: with the checkerboard on, across two consecutive draw
\* calls whose input counters differ by 1, every pixel of the target is
\* written in exactly one of the two frames.
C8_Original ==
    \A n \in 1..(Len(history) - 1) :
        Interlaced(n) =>
            \A p \in Pixels :
                (p \in history[n].sets) # (p \in history[n + 1].sets)

\* C8 as amended: with the checkerboard on, across two consecutive draw
\* calls whose input counters differ by 1, every pixel of the target has
\* its primary ray cast in exactly one of the two frames, and is written
\* only in that frame (when the ray hits), so in at most one of the two.
C8_CheckerboardPhase ==
    \A n \in 1..(Len(history) - 1) :
        Interlaced(n) =>
            /\ \A p \in Pixels :
                  (p \in history[n].casts) # (p \in history[n + 1].casts)
            /\ history[n].sets \subseteq history[n].casts
            /\ history[n + 1].sets \subseteq history[n + 1].casts
            /\ history[n].sets \cap history[n + 1].sets = {}

\* C8 witness: two interlaced frames that each wrote a pixel and left a
\* pixel unwritten in both.
C8_Witness ==
    /\ Len(history) = 2
    /\ Interlaced(1)
    /\ history[1].sets # {}
    /\ history[2].sets # {}
    /\ Pixels \ (history[1].sets \cup history[2].sets) # {}

\* The primary ray of pixel p hits an object.
PrimaryHits(p) ==
    cast_ray(object_data, camera_position,
             RayDir(p[1], p[2], target.w, target.h)).some

\* Every worker of the draw call has been started and has finished.
WorkersDone ==
    /\ main_pc = "spawn"
    /\ t = thread_count
    /\ \A i \in 1..Len(threads) : Finished(threads[i])

\* C9: during a draw call a pixel is written only when its primary ray hits
\* an object, a pixel whose primary ray misses keeps the value it had when
\* the call began, and with no objects in the scene no set call is made
\* and the target is unchanged, whatever the checkerboard flag and counter.
C9_WriteOnlyOnHit ==
    main_pc = "spawn" =>
        /\ \A p \in Counted(sets) : PrimaryHits(p)
        /\ \A p \in Pixels :
              ~PrimaryHits(p) =>
                  ImageGet(target, p[1], p[2]) =
                     target_before[p[1] + p[2] * target.w + 1]
        /\ object_data = << >> =>
              /\ Counted(sets) = {}
              /\ target.data = target_before

\* C9 witness: a finished draw call that cast a ray that missed, left that
\* pixel unwritten, and wrote another pixel.
C9_Witness ==
    /\ WorkersDone
    /\ \E p \in Counted(casts) : ~PrimaryHits(p) /\ p \notin Counted(sets)
    /\ Counted(sets) # {}

\* The rows given to a worker.
Rows(th) == th.y_start..(th.y_end - 1)

\* C10: the row ranges of the workers of one draw call are pairwise
\* disjoint and, once every worker is started, their union is [0, h); no
\* pixel is processed or written twice in a draw call, and when the workers
\* have finished every pixel has been processed exactly once.
C10_RowPartition ==
    /\ \A i, j \in 1..Len(threads) :
          i # j => Rows(threads[i]) \cap Rows(threads[j]) = {}
    /\ (main_pc = "spawn" /\ t = thread_count) =>
          UNION { Rows(threads[i]) : i \in 1..Len(threads) } =
             0..(target.h - 1)
    /\ \A p \in DOMAIN visits : visits[p] <= 1
    /\ \A p \in DOMAIN sets : sets[p] <= 1
    /\ WorkersDone => \A p \in Pixels : Count(visits, p) = 1

\* C10 witness: three workers have finished a target of one row: the first
\* had the row, the second an empty range at the end of the image, the
\* third a range that starts past it; the row had a pixel written.
C10_Witness ==
    /\ WorkersDone
    /\ thread_count = 3
    /\ target.h = 1
    /\ Rows(threads[1]) = {0}
    /\ threads[2].y_start = 1
    /\ threads[3].y_start = 2
    /\ Rows(threads[2]) \cup Rows(threads[3]) = {}
    /\ Counted(sets) # {}

\* C11 as stated: for every value hardware_concurrency can return, 0
\* included, draw computes the rows per worker without dividing by zero and
\* runs at least one worker.
C11_Original ==
    /\ main_pc # "fault"
    /\ main_pc = "spawn" => thread_count >= 1

\* The workers draw has started.
Running == { i \in 1..Len(threads) : ~Finished(threads[i]) }

\* C12, in every state: outside a draw call no worker is running.
C12_Inv == main_pc # "spawn" => Running = {}

\* C12, in every step: the target is written only inside a draw call, and
\* a worker takes a step only inside a draw call.
C12_Step ==
    (target' # target \/ threads' # threads \/ sets' # sets) =>
        (main_pc = "spawn" \/ main_pc' = "spawn")

\* C12: draw returns only after every worker it started has finished; in no
\* interleaving is a worker still running, or still writing to the target,
\* after draw has returned.
C12_JoinBeforeReturn == []C12_Inv /\ [][C12_Step]_vars

\* C12 witness: draw has returned from a call in which three workers ran
\* and a pixel was written.
C12_Witness ==
    /\ main_pc = "sync"
    /\ frame >= 1
    /\ Len(threads) = 3
    /\ Running = {}
    /\ Counted(sets) # {}

\* C13, in every step: while a draw call is in progress or a worker is
\* running, no step changes objects, materials, lights, camera or render
\* flags; so the World after draw equals the World before it, and update
\* changes the World only when no worker is running.
C13_Step ==
    (main_pc = "spawn" \/ Running # {}) => UNCHANGED world_vars

\* C13: during a draw the scene is shared read-only.
C13_SceneReadOnly == [][C13_Step]_vars

\* C13 witness: a second draw call is in progress with two workers running,
\* after update has toggled the checkerboard and moved the camera.
C13_Witness ==
    /\ main_pc = "spawn"
    /\ frame = 1
    /\ Cardinality(Running) = 2
    /\ ~checkerboard
    /\ camera_position # << 0, 0, 0 >>

(***************************************************************************)
(* Properties of the BVH build.                                            *)
(***************************************************************************)
\* The leaves of the BVH: the nodes without children.
Leaves == { n \in 1..Len(mesh.nodes) :
               mesh.nodes[n].left = 0 /\ mesh.nodes[n].right = 0 }

\* The face positions of a node.
FaceRange(n) ==
    mesh.nodes[n].face_index..(mesh.nodes[n].face_index + mesh.nodes[n].face_count - 1)

\* C14: after compute_bvh the root exists exactly when the mesh has a
\* face, and every face position of the final faces array belongs to
\* exactly one leaf.
C14_LeavesPartitionFaces ==
    mesh.pc = "done" =>
        /\ (mesh.nodes # << >>) <=> (mesh.faces # << >>)
        /\ \A k \in 0..(Len(mesh.faces) - 1) :
              Cardinality({ n \in Leaves : k \in FaceRange(n) }) = 1
        /\ \A n \in Leaves : FaceRange(n) \subseteq 0..(Len(mesh.faces) - 1)

\* C14 witness: a finished build that split twice and reordered faces.
C14_Witness ==
    /\ mesh.pc = "done"
    /\ Cardinality(Leaves) = 3
    /\ Len(mesh.faces) = 6
    /\ mesh.faces[1] # mesh.faces[2]

\* The box of node n contains vertex v.
InBox(n, v) ==
    \A a \in 1..3 : /\ mesh.nodes[n].bound_min[a] <= v[a]
                     /\ v[a] <= mesh.nodes[n].bound_max[a]

\* C15: after the build has finished, the box of every node contains
\* every vertex of the faces at the node's positions of the final faces
\* array, and the box of every child lies inside the box of its parent.
C15_BoxesContainFaces ==
    mesh.pc = "done" =>
        \A n \in 1..Len(mesh.nodes) :
            /\ \A k \in FaceRange(n) : \A c \in 1..3 :
                  InBox(n, mesh.vertices[mesh.faces[k + 1][c] + 1])
            /\ \A m \in { mesh.nodes[n].left, mesh.nodes[n].right } \ { 0 } :
                  /\ InBox(n, mesh.nodes[m].bound_min)
                  /\ InBox(n, mesh.nodes[m].bound_max)

\* C15 witness: a finished build whose root has a left child that was
\* split again, reordering faces under the root after its box was made.
C15_Witness ==
    /\ mesh.pc = "done"
    /\ Len(mesh.nodes) = 5
    /\ mesh.nodes[1].left = 2
    /\ mesh.nodes[2].left = 3
    /\ mesh.nodes[2].face_count = 5

(***************************************************************************)
(* Properties of shade.                                                    *)
(***************************************************************************)
\* The shadow ray cast from the offset hit point toward the light hits an
\* object at a distance smaller than the distance to the light.
Blocked(light) ==
    LET toward == Toward(light.position, shading.hit.origin)
        shadow_hit == CastFrom(VecAdd(shading.hit.origin,
                                      Normalized(shading.hit.normal)),
                               Normalized(toward))
    IN  shadow_hit.some /\ shadow_hit.distance * 10 < Magnitude(toward)

\* What the light adds to the colour of the Lambert material shaded.
Lit(light) ==
    LET ndotl == Dot(shading.hit.normal,
                     Normalized(Toward(light.position, shading.hit.origin))) \div 1000
    IN  Scaled(Scaled(hadamard(light.color, shading.mat.color),
                      IF ndotl > 0 THEN ndotl ELSE 0),
               shading.mat.diffuse_reflectance)

RECURSIVE SumOfLit(_)
\* The sum of Lit over the lights from the i-th on that are not Blocked.
SumOfLit(i) ==
    IF i > Len(light_data) THEN << 0, 0, 0 >>
    ELSE IF Blocked(light_data[i]) THEN SumOfLit(i + 1)
    ELSE VecAdd(Lit(light_data[i]), SumOfLit(i + 1))

\* C16: with shadows enabled, LambertMaterial::shade returns black when the
\* shadow ray toward every light is blocked nearer than the light, and a
\* light whose shadow ray hits nothing, or only something farther than the
\* light, is not skipped: the colour is the sum over exactly those lights.
C16_ShadowCutoff ==
    (shading.pc = "ready" /\ shading.mat.kind = "Lambert" /\ shadows) =>
        \A k \in 1..Len(shading.log) :
            /\ (\A i \in 1..Len(light_data) : Blocked(light_data[i]))
                  => shading.log[k].color = << 0, 0, 0 >>
            /\ shading.log[k].color = SumOfLit(1)

\* A Lambert floor under a sphere that hides its only light: the light
\* alone would give a colour, and shade returned black.
C16_Witness ==
    /\ shading.pc = "ready"
    /\ shading.mat.kind = "Lambert"
    /\ shadows
    /\ Len(light_data) = 1
    /\ Blocked(light_data[1])
    /\ Lit(light_data[1]) # << 0, 0, 0 >>
    /\ Len(shading.log) >= 1
    /\ shading.log[1].color = << 0, 0, 0 >>

\* C17 as stated: BsdfMaterial::shade executes the reflection pass exactly
\* when depth < 4, metallic > 0 and 1 - roughness > 0.001.
C17_Original ==
    (shading.pc = "ready" /\ shading.mat.kind = "Bsdf") =>
        \A k \in 1..Len(shading.log) :
            shading.log[k].reflection <=>
                /\ shading.depth < 4
                /\ shading.mat.metallic > 0
                /\ 1000 - shading.mat.roughness > 1

Malformed(line) ==
    /\ line # << >>
    /\ line[1] \in { << "v" >>, << "f" >>, << "s" >> }
    /\ \E k \in (IF line[1] = << "s" >> THEN {2} ELSE 2..4) :
          \/ k > Len(line)
          \/ ~NumberPrefix(line[k]).ok
          \/ ~NumberPrefix(line[k]).whole

\* C19 as stated: load_mesh surfaces an error and returns no mesh whenever
\* a line starting with v, f or s has a component that is missing or does
\* not parse as a number; any other line is ignored and causes no error.
C19_Original ==
    \A k \in 1..Len(loader.log) :
        /\ Malformed(loader.log[k].line) => loader.log[k].effect = "error"
        /\ ( \/ loader.log[k].line = << >>
             \/ loader.log[k].line[1] \notin { << "v" >>, << "f" >>, << "s" >> } )
           => loader.log[k].effect = "none"

\* The line is a face line with a slash-delimited component or a negative
\* index.
UnsupportedFace(line) ==
    /\ line # << >>
    /\ line[1] = << "f" >>
    /\ \E k \in 2..Len(line) :
          \/ line[k] # << >> /\ line[k][1] = "-"
          \/ \E c \in 1..Len(line[k]) : line[k][c] = "/"

\* C20 as stated: a face line with a slash-delimited component or a
\* negative index makes load_mesh fail, and no face is added from it.
C20_Original ==
    \A k \in 1..Len(loader.log) :
        UnsupportedFace(loader.log[k].line) => loader.log[k].effect = "error"

\* C21 as stated: whenever load_mesh returns a mesh, every index of every
\* face is smaller than vertices.size().
C21_Original ==
    (loader.pc = "done") =>
        \A k \in 1..Len(loader.faces) : \A c \in 1..3 :
            loader.faces[k][c] < Len(loader.vertices)

(***************************************************************************)
(* Properties of the conversion of a colour to a pixel.                    *)
(***************************************************************************)
\* round(clamp(c * 255, 0, 255)) for a channel in thousandths.
RoundedChannel(c) == (Clamp(c * 255, 0, 255000) + 500) \div 1000

\* C22 as stated: the pixel written for a colour has, channel by channel,
\* round(clamp(c * 255, 0, 255)), and alpha 255.
C22_Original ==
    shading.pc = "ready" =>
        \A k \in 1..Len(shading.log) :
            shading.log[k].pixel =
                rgba(RoundedChannel(shading.log[k].color[1]),
                     RoundedChannel(shading.log[k].color[2]),
                     RoundedChannel(shading.log[k].color[3]))

(***************************************************************************)
(* C23                                                                     *)
(***************************************************************************)
\* The finished cast_ray call was made on a World whose only object is a
\* Sphere.
OneSphere ==
    /\ ray.pc = "done"
    /\ Len(object_data) = 1
    /\ object_data[1].shape.kind = "Sphere"

\* The unit sphere at the origin and the ray from (0, 0, -5) along
\* (0, 0, 1).
UnitSphereCase ==
    /\ OneSphere
    /\ object_data[1].shape = Sphere(<< 0, 0, 0 >>, 1)
    /\ ray.origin = << 0, 0, -5 >>
    /\ ray.direction = << 0, 0, 1 >>

\* C23: for a sphere, cast_ray reports a hit exactly when the discriminant
\* of a t^2 + b t + c = 0 is not negative and a root is positive (b < 0 or
\* c < 0); the distance it reports is then a positive root, and the other
\* root is not a smaller positive one.  For the unit sphere at the origin
\* and the ray from (0, 0, -5) along (0, 0, 1) the distance is 4 and the
\* normal (0, 0, -1).
C23_SmallestPositiveRoot ==
    OneSphere =>
        LET object == object_data[1].shape
            l == VecSub(ray.origin, object.position)
            a == Dot(ray.direction, ray.direction)
            b == 2 * Dot(ray.direction, l)
            c == Dot(l, l) - object.radius * object.radius
            distance == ray.hit.distance
            other == (0 - 1000 * b) - a * distance
        IN  /\ ray.hit.some <=> (b * b - 4 * a * c >= 0 /\ (b < 0 \/ c < 0))
            /\ ray.hit.some =>
                  /\ distance > 0
                  /\ a * distance * distance + 1000 * b * distance
                        + 1000000 * c = 0
                  /\ other <= 0 \/ other >= a * distance
                  /\ ray.hit.material_index = object_data[1].material
            /\ UnitSphereCase =>
                  /\ ray.hit.some
                  /\ distance = 4000
                  /\ ray.hit.normal = << 0, 0, -1000 >>

\* The call on the unit sphere has returned with the hit at distance 4.
C23_Witness == UnitSphereCase /\ ray.hit.distance = 4000

(***************************************************************************)
(* C24                                                                     *)
(***************************************************************************)
\* The term of the Default decomposition that a mode is named after, for
\* one light: diffuse is diffuse_reflectance * lambert_diffuse and spec is
\* cook_torrance.
NamedTerm(mode, light) ==
    LET terms == DirectTerms(shading.mat, shading.hit, light)
    IN  CASE mode = "Diffuse" ->
               hadamard(terms.diffuse_reflectance, terms.lambert_diffuse)
          [] mode = "CookTorrance" -> terms.cook_torrance
          [] mode = "Fresnel" -> terms.fresnel
          [] mode = "NormalDistribution" ->
               << terms.normal_distribution, terms.normal_distribution,
                  terms.normal_distribution >>
          [] mode = "Microfacets" ->
               << terms.microfacets, terms.microfacets, terms.microfacets >>

RECURSIVE SumOfNamed(_, _)
\* The sum of NamedTerm over the lights from the i-th on.
SumOfNamed(mode, i) ==
    IF i > Len(light_data) THEN << 0, 0, 0 >>
    ELSE VecAdd(NamedTerm(mode, light_data[i]), SumOfNamed(mode, i + 1))

\* C24 as stated: in each mode other than Default, what every light adds to
\* the colour BsdfMaterial::shade returns is the term of the Default
\* decomposition the mode is named after and nothing else, the diffuse term
\* being ((1 - F)(1 - metallic)) * ((light.color * color) * max(0, n.l)).
C24_Original ==
    (shading.pc = "ready" /\ shading.mat.kind = "Bsdf" /\ gi_mode = "None"
        /\ bsdf_mode # "Default") =>
        \A k \in 1..Len(shading.log) :
            shading.log[k].color
                = VecAdd(SumOfNamed(bsdf_mode, 1), shading.mat.emissive)

(***************************************************************************)
(* C25                                                                     *)
(***************************************************************************)
\* ceil(h / count) for count >= 1: the least c with c * count >= h.
Ceil(h, count) == CHOOSE c \in 0..h : c * count >= h /\ \A b \in 0..(c - 1) : b * count < h

OneSided(n) ==
    LET node == mesh.nodes[n]
        extent == [a \in 1..3 |-> node.bound_max[a] - node.bound_min[a]]
        axis == CHOOSE a \in 1..3 :
                   /\ \A b \in 1..3 : extent[b] <= extent[a]
                   /\ \A b \in 1..(a - 1) : extent[b] < extent[a]
        sum(k) == LET f == mesh.faces[k + 1]
                  IN  mesh.vertices[f[1] + 1][axis] + mesh.vertices[f[2] + 1][axis]
                         + mesh.vertices[f[3] + 1][axis]
        below(k) == 2 * sum(k) < 3 * (node.bound_min[axis] + node.bound_max[axis])
    IN  \/ \A k \in FaceRange(n) : below(k)
        \/ \A k \in FaceRange(n) : ~below(k)

\* C26: in a built BVH a node of at most 4 faces is a leaf, no node has
\* exactly one child, the children of an internal node have at least one
\* face each and the ranges [face_index, face_index + mid) and
\* [face_index + mid, face_index + face_count), and a leaf of more than 4
\* faces is one whose centroid partition put every face on one side.
C26_NodeShape ==
    mesh.pc = "done" =>
        \A n \in 1..Len(mesh.nodes) :
            LET node == mesh.nodes[n]
            IN  /\ node.face_count <= LeafSize => n \in Leaves
                /\ (node.left = 0) <=> (node.right = 0)
                /\ n \notin Leaves =>
                      /\ node.left \in 1..Len(mesh.nodes)
                      /\ node.right \in 1..Len(mesh.nodes)
                      /\ mesh.nodes[node.left].face_count >= 1
                      /\ mesh.nodes[node.right].face_count >= 1
                      /\ mesh.nodes[node.left].face_index = node.face_index
                      /\ mesh.nodes[node.right].face_index
                            = node.face_index + mesh.nodes[node.left].face_count
                      /\ mesh.nodes[node.left].face_count
                            + mesh.nodes[node.right].face_count = node.face_count
                /\ (n \in Leaves /\ node.face_count > LeafSize) => OneSided(n)
                /\ (n \notin Leaves) => ~OneSided(n)

\* C26 witness: a built BVH whose root is internal and has a leaf of more
\* than 4 faces under it.
C26_Witness ==
    /\ mesh.pc = "done"
    /\ 1 \notin Leaves
    /\ \E n \in Leaves : mesh.nodes[n].face_count > LeafSize

(***************************************************************************)
(* C27                                                                     *)
(***************************************************************************)
\* The objects of the World that are a Mesh with a BVH.
Meshes ==
    { i \in 1..Len(object_data) :
         object_data[i].shape.kind = "Mesh" /\ object_data[i].shape.nodes # << >> }

\* intersect_triangle of the local ray of the cast_ray call with face k of
\* Mesh i, without the BVH.
FaceHit(i, k) ==
    LET object == Local(object_data[i].shape)
        face == object.faces[k]
    IN  intersect_triangle(VecSub(ray.origin, object.position),
                           Normalized(ray.direction),
                           object.vertices[face[1] + 1],
                           object.vertices[face[2] + 1],
                           object.vertices[face[3] + 1])

\* The faces of Mesh i that the ray hits.
FacesHit(i) ==
    { k \in 1..Len(object_data[i].shape.faces) : FaceHit(i, k).some }

\* The box of node n of Mesh i passes the slab test.
BoxPassed(i, n) ==
    LET object == Local(object_data[i].shape)
    IN  intersect_aabb(VecSub(ray.origin, object.position),
                       Normalized(ray.direction),
                       object.nodes[n].bound_min, object.nodes[n].bound_max)

\* C27: the traversal of a Mesh calls intersect_bvh on the root and on both
\* children of every internal node it was called on whose box passes the
\* slab test, and on no other node, once each; it reports a hit exactly
\* when the ray hits a face, and then best_distance is the least hit
\* distance over all the faces of the Mesh and best_hit the hit of the
\* first face at that distance, as when every face is tested without the
\* BVH.
C27_TraversalIsBruteForce ==
    ray.pc = "done" =>
        \A i \in Meshes :
            LET nodes == object_data[i].shape.nodes
                found == ray.found[i]
                called == { found.calls[c] : c \in 1..Len(found.calls) }
                entered == { n \in called : nodes[n].left # 0 /\ BoxPassed(i, n) }
                nearest == CHOOSE k \in FacesHit(i) :
                              \A j \in FacesHit(i) :
                                 \/ FaceHit(i, k).distance < FaceHit(i, j).distance
                                 \/ /\ FaceHit(i, k).distance = FaceHit(i, j).distance
                                    /\ k <= j
            IN  /\ called = { 1 } \cup { nodes[n].left : n \in entered }
                                  \cup { nodes[n].right : n \in entered }
                /\ Cardinality(called) = Len(found.calls)
                /\ found.hit_any <=> FacesHit(i) # {}
                /\ FacesHit(i) = {} => found.best_distance = FLT_MAX
                /\ FacesHit(i) # {} =>
                      /\ found.best_distance = FaceHit(i, nearest).distance
                      /\ found.best_hit = FaceHit(i, nearest)

\* C27 witness: a traversal that went into both children of the root and
\* found the nearest face after a farther one.
C27_Witness ==
    /\ ray.pc = "done"
    /\ \E i \in Meshes :
          /\ Len(ray.found[i].calls) >= 3
          /\ \E j, k \in FacesHit(i) :
                /\ j < k
                /\ FaceHit(i, k).distance < FaceHit(i, j).distance
                /\ ray.found[i].best_distance = FaceHit(i, k).distance

(***************************************************************************)
(* C28                                                                     *)
(***************************************************************************)
\* C28: a call of BsdfMaterial::shade casts global illumination rays only
\* with gi_mode Simple and depth < 1, and then 1024 of them, the shade
\* calls on the bounce hits (at depth + 1) casting none; at depth >= 1 or
\* with gi_mode None it casts none.  The sum over the rays is divided by
\* 1024: when no ray can hit anything and there is no light, the colour
\* returned is color * background + emissive.
C28_OneBounce ==
    (shading.pc = "ready" /\ shading.mat.kind = "Bsdf") =>
        \A k \in 1..Len(shading.log) :
            /\ shading.log[k].gi_rays =
                  IF gi_mode = "Simple" /\ shading.depth < 1 THEN 1024 ELSE 0
            /\ (gi_mode = "Simple" /\ shading.depth < 1
                   /\ Len(object_data) = 1 /\ light_data = << >>) =>
                  shading.log[k].color
                     = VecAdd(hadamard(shading.mat.color, background_color),
                              shading.mat.emissive)

\* C28 witness: a call at depth 0 with gi_mode Simple under a sphere with a
\* Bsdf material, which some of its 1024 rays hit, and none of the shade
\* calls on the bounce hits cast a ray of its own.
C28_Witness ==
    /\ shading.pc = "ready"
    /\ shading.mat.kind = "Bsdf"
    /\ gi_mode = "Simple"
    /\ shading.depth = 0
    /\ Len(object_data) = 3
    /\ material(object_data[2].material).kind = "Bsdf"
    /\ CastFrom(VecAdd(shading.hit.origin, shading.hit.normal),
                << 0, 100, 0 >>).some
    /\ Len(shading.log) = 1
    /\ shading.log[1].gi_rays = 1024

(***************************************************************************)
(* C30                                                                     *)
(***************************************************************************)
\* The Hit.distance of object i alone for the ray of the cast_ray call (the
\* ray parameter for a Sphere and a Plane, the length for a Mesh), or -1
\* when the ray does not hit it.
ObjectDistance(i) ==
    LET alone == cast_ray(<< object_data[i] >>, ray.origin, ray.direction)
    IN  IF alone.some THEN alone.distance ELSE -1

\* The objects the ray hits.
ObjectsHit == { i \in 1..Len(object_data) : ObjectDistance(i) > 0 }

\* C30: cast_ray returns no hit exactly when the ray hits no object;
\* otherwise the distance of the hit it returns is the least of the hit
\* distances of the objects, and its material_index is the one stored with
\* the first object, in the order of the add calls, that is hit at that
\* distance.
C30_NearestObject ==
    ray.pc = "done" =>
        /\ ray.hit.some <=> ObjectsHit # {}
        /\ ObjectsHit # {} =>
              LET first == CHOOSE i \in ObjectsHit :
                              \A j \in ObjectsHit :
                                 \/ ObjectDistance(i) < ObjectDistance(j)
                                 \/ /\ ObjectDistance(i) = ObjectDistance(j)
                                    /\ i <= j
              IN  /\ \A j \in ObjectsHit : ray.hit.distance <= ObjectDistance(j)
                  /\ ray.hit.distance = ObjectDistance(first)
                  /\ ray.hit.material_index = object_data[first].material
                  /\ ray.hit = [cast_ray(<< object_data[first] >>, ray.origin,
                                         ray.direction)
                                   EXCEPT !.material_index = object_data[first].material]

\* C30 witness: the ray hits a sphere and the Mesh added after it at the
\* same distance, and the hit returned is the one on the sphere.
C30_Witness ==
    /\ ray.pc = "done"
    /\ \E i, j \in ObjectsHit :
          /\ i < j
          /\ object_data[i].shape.kind = "Sphere"
          /\ object_data[j].shape.kind = "Mesh"
          /\ ObjectDistance(i) = ObjectDistance(j)
          /\ object_data[i].material # object_data[j].material
          /\ ray.hit.material_index = object_data[i].material
          /\ ray.hit.distance = ObjectDistance(i)

(***************************************************************************)
(* C29                                                                     *)
(***************************************************************************)
\* Every pixel of the target has had one iteration of the pixel loop, with
\* a primary ray cast exactly for the pixels the checkerboard does not
\* skip.
Processed ==
    \A p \in Pixels :
        /\ Count(visits, p) = 1
        /\ Count(casts, p) = IF Skip(p[1], p[2], poll_counter) THEN 0 ELSE 1

====
